---- MODULE Spec2Model ----
(***************************************************************************)
(* Dual-stack (IPv4 / IPv6) HTTP comparison engine of routes/api/test.ts,  *)
(* and the verdict step of the handler variant kept in routes/index.tsx.   *)
(*                                                                         *)
(* Representation.  A JavaScript string is a sequence of UTF-16 code       *)
(* units; a code unit is a one-character TLA+ string, except "HI" and "LO" *)
(* which stand for a high and a low surrogate unit.  A value that may be   *)
(* null / absent is a sequence of length at most one: None is <<>> and     *)
(* Some(x) is <<x>>.  A number the code computes in floating point is kept *)
(* exact, as the fraction [num, den].                                      *)
(***************************************************************************)
EXTENDS Integers, Sequences, FiniteSets, TLC

VARIABLES
    phase,          \* position of the GET handler ("aborted": the process died)
    req,            \* the query: [url, followRedirects]
    hostname,       \* parsed.hostname
    dns,            \* per family: the promise of resolveDns (Idle, Pending, Done(address or None))
    ports,          \* per <<family, port name>>: the promise of checkPort
    fetches,        \* per family: the promise of fetchViaIP
    result,         \* the handler's TestResult under construction (None before it is built)
    response,       \* what the handler returned or threw (None while it runs)
    net,            \* counters of the network operations issued so far
    argA, argB,     \* inputs of a component exercised on its own
    out             \* outputs of a component exercised on its own

hvars == <<phase, req, hostname, dns, ports, fetches, result, response, net>>
pvars == <<argA, argB, out>>
vars  == <<phase, req, hostname, dns, ports, fetches, result, response, net,
           argA, argB, out>>

None == <<>>
Some(x) == <<x>>

Min(x, y) == IF x <= y THEN x ELSE y
Max(x, y) == IF x >= y THEN x ELSE y

(***************************************************************************)
(* Bounds of the model.                                                    *)
(***************************************************************************)
MaxStrLen == 3          \* longest string given to the scorer on its own

(***************************************************************************)
(* String primitives.                                                      *)
(***************************************************************************)
StartsWith(s, p) == Len(s) >= Len(p) /\ SubSeq(s, 1, Len(p)) = p

\* s.substring(from0, to0) with 0-based, end-exclusive, clamped indices
Substring(s, from0, to0) ==
    LET a == Min(Max(from0, 0), Len(s))
        b == Min(Max(to0, 0), Len(s))
    IN  SubSeq(s, Min(a, b) + 1, Max(a, b))

\* `const x = value; rest`: the value is computed once and Rest applied to it
Let(value, Rest(_)) == CHOOSE r \in {Rest(x) : x \in {value}} : TRUE

\* the least element of a non-empty set of integers
Least(S) == CHOOSE x \in S : \A y \in S : x <= y
Greatest(S) == CHOOSE x \in S : \A y \in S : y <= x

\* the first position at or after i (1-based) of s that holds one of `chars`;
\* Len(s) + 1 when there is none
IndexFrom(s, chars, i) ==
    Let({k \in Max(i, 1)..Len(s) : s[k] \in chars}, LAMBDA hits :
        IF hits = {} THEN Len(s) + 1 ELSE Least(hits))

Includes(s, ch) == \E i \in 1..Len(s) : s[i] = ch

Rep(ch, n) == [i \in 1..n |-> ch]

AllStrings(alphabet, n) == UNION {[1..k -> alphabet] : k \in 0..n}

(***************************************************************************)
(* sequenceMatcherQuickRatio.                                              *)
(***************************************************************************)
IsHighSurrogate(u) == u = "HI"
IsLowSurrogate(u) == u = "LO"

\* `for (const ch of s)`: the string iterator yields code points; a high
\* surrogate followed by a low one is one element, any other unit is its own.
\* A unit is the second half of a pair exactly when it is a low surrogate that
\* follows a high one (a high surrogate is never a second half).
IsPairTail(s, i) ==
    i > 1 /\ IsLowSurrogate(s[i]) /\ IsHighSurrogate(s[i - 1])
CodePointStarts(s) == {i \in 1..Len(s) : ~IsPairTail(s, i)}
CodePointAt(s, i) ==
    IF i < Len(s) /\ IsPairTail(s, i + 1) THEN SubSeq(s, i, i + 1)
    ELSE SubSeq(s, i, i)

\* the Map<string, number> built by the counting loop
CharFreq(s) ==
    Let(CodePointStarts(s), LAMBDA starts :
        [ch \in {CodePointAt(s, i) : i \in starts} |->
            Cardinality({i \in starts : CodePointAt(s, i) = ch})])

FreqGet(freq, ch) == IF ch \in DOMAIN freq THEN freq[ch] ELSE 0

\* the same sum with Math.max in place of Math.min
RECURSIVE SumMatches_TakesMax(_, _, _)
SumMatches_TakesMax(keys, freqA, freqB) ==
    IF keys = {} THEN 0
    ELSE LET ch == CHOOSE c \in keys : TRUE
         IN  Max(FreqGet(freqA, ch), freqB[ch])
             + SumMatches_TakesMax(keys \ {ch}, freqA, freqB)

\* matches += Math.min(freqA.get(ch) || 0, countB) for every entry of freqB
RECURSIVE SumMatches(_, _, _)
SumMatches(keys, freqA, freqB) ==
    IF keys = {} THEN 0
    ELSE LET ch == CHOOSE c \in keys : TRUE
         IN  Min(FreqGet(freqA, ch), freqB[ch])
             + SumMatches(keys \ {ch}, freqA, freqB)

QuickRatioMatches(a, b) ==
    Let(CharFreq(a), LAMBDA freqA :
    Let(CharFreq(b), LAMBDA freqB : SumMatches(DOMAIN freqB, freqA, freqB)))

\* a denominator that forgets b: a.length + a.length
QuickRatioLengthSum_DoubledA(a, b) == Len(a) + Len(a)

\* a.length + b.length: lengths in code units
QuickRatioLengthSum(a, b) == Len(a) + Len(b)

\* the two early returns in the other order: `||` tested before `&&`
sequenceMatcherQuickRatio_EmptyChecksSwapped(a, b) ==
    IF Len(a) = 0 \/ Len(b) = 0 THEN [num |-> 0, den |-> 1]
    ELSE [num |-> 2 * QuickRatioMatches(a, b), den |-> QuickRatioLengthSum(a, b)]

sequenceMatcherQuickRatio(a, b) ==
    IF Len(a) = 0 /\ Len(b) = 0 THEN [num |-> 1, den |-> 1]
    ELSE IF Len(a) = 0 \/ Len(b) = 0 THEN [num |-> 0, den |-> 1]
    ELSE [num |-> 2 * QuickRatioMatches(a, b), den |-> QuickRatioLengthSum(a, b)]

RatEq(p, q) == p.num * q.den = q.num * p.den

(***************************************************************************)
(* Characters.                                                             *)
(***************************************************************************)
UpperLetters ==
    <<"A", "B", "C", "D", "E", "F", "G", "H", "I", "J", "K", "L", "M",
      "N", "O", "P", "Q", "R", "S", "T", "U", "V", "W", "X", "Y", "Z">>
LowerLetters ==
    <<"a", "b", "c", "d", "e", "f", "g", "h", "i", "j", "k", "l", "m",
      "n", "o", "p", "q", "r", "s", "t", "u", "v", "w", "x", "y", "z">>
Digits == <<"0", "1", "2", "3", "4", "5", "6", "7", "8", "9">>

Range(seq) == {seq[i] : i \in 1..Len(seq)}
AsciiAlpha == Range(UpperLetters) \cup Range(LowerLetters)
AsciiDigit == Range(Digits)

LowerOfUpper ==
    [c \in Range(UpperLetters) |->
        LowerLetters[CHOOSE i \in 1..26 : UpperLetters[i] = c]]
ToLowerChar(c) == IF c \in DOMAIN LowerOfUpper THEN LowerOfUpper[c] ELSE c
ToLowerCase(s) == [i \in 1..Len(s) |-> ToLowerChar(s[i])]

\* code units in ascending order of their numeric value (the ones the model uses)
CharOrder ==
    <<"\t", "\n", "\r", " ", "\"", "#", "'", "+", ",", "-", ".", "/">>
    \o Digits \o <<":", "<", "=", ">", "?", "@">> \o UpperLetters
    \o <<"[", "\\", "]", "_">> \o LowerLetters \o <<"HI", "LO">>
RankOfChar ==
    [c \in Range(CharOrder) |-> CHOOSE i \in 1..Len(CharOrder) : CharOrder[i] = c]
CharRank(c) == RankOfChar[c]

RECURSIVE StrLess(_, _)
StrLess(s, t) ==
    IF t = <<>> THEN FALSE
    ELSE IF s = <<>> THEN TRUE
    ELSE IF s[1] = t[1] THEN StrLess(Tail(s), Tail(t))
    ELSE CharRank(s[1]) < CharRank(t[1])

WhiteSpace == {" ", "\t", "\n", "\r"}

RECURSIVE TrimStart(_)
TrimStart(s) ==
    IF s # <<>> /\ s[1] \in WhiteSpace THEN TrimStart(Tail(s)) ELSE s
RECURSIVE TrimEnd(_)
TrimEnd(s) ==
    IF s # <<>> /\ s[Len(s)] \in WhiteSpace
    THEN TrimEnd(SubSeq(s, 1, Len(s) - 1)) ELSE s
Trim(s) == TrimEnd(TrimStart(s))

(***************************************************************************)
(* new URL(input): the platform's URL parser, called without a base URL.   *)
(* Modelled: scheme detection, the special schemes' authority (slashes     *)
(* skipped, host, optional numeric port, forbidden host code points, host  *)
(* lower-cased), non-special schemes (authority only after "//", otherwise *)
(* an opaque path and an empty host), pathname and search.  Not modelled:  *)
(* credentials, IP-literal hosts, percent-encoding, dot segments.          *)
(***************************************************************************)
SpecialSchemes ==
    { <<"h", "t", "t", "p">>, <<"h", "t", "t", "p", "s">>,
      <<"f", "t", "p">>, <<"w", "s">>, <<"w", "s", "s">> }
SchemeChars == AsciiAlpha \cup AsciiDigit \cup {"+", "-", "."}
ForbiddenHostChars ==
    {"\t", "\n", "\r", " ", "#", "/", ":", "<", ">", "?", "@", "[", "\\", "]"}

UrlFailure ==
    [ok |-> FALSE, protocol |-> <<>>, hostname |-> <<>>,
     pathname |-> <<>>, search |-> <<>>]

\* s without its leading run of `chars`
SkipChars(s, chars) ==
    Let({k \in 1..Len(s) : s[k] \notin chars}, LAMBDA others :
        IF others = {} THEN <<>> ELSE SubSeq(s, Least(others), Len(s)))

\* the part of `rest` (what follows the authority) that is the path, and the query
UrlPathOf(rest) == SubSeq(rest, 1, IndexFrom(rest, {"?", "#"}, 1) - 1)
UrlSearchOf(rest) ==
    Let(IndexFrom(rest, {"?", "#"}, 1), LAMBDA q :
    Let(SubSeq(rest, q, IndexFrom(rest, {"#"}, 1) - 1), LAMBDA query :
        IF q > Len(rest) \/ rest[q] = "#" \/ Len(query) = 1 THEN <<>> ELSE query))

\* host[:port] of an authority; special: the host may not be empty
UrlAuthority(scheme, authority, rest, special) ==
    Let(IndexFrom(authority, {":"}, 1), LAMBDA c :
    Let(SubSeq(authority, 1, c - 1), LAMBDA host :
    Let(SubSeq(authority, c + 1, Len(authority)), LAMBDA port :
    Let(UrlPathOf(rest), LAMBDA path :
        IF (special /\ host = <<>>)
           \/ (\E i \in 1..Len(host) : host[i] \in ForbiddenHostChars)
           \/ (\E i \in 1..Len(port) : port[i] \notin AsciiDigit)
        THEN UrlFailure
        ELSE [ok |-> TRUE,
              protocol |-> scheme \o <<":">>,
              hostname |-> IF special THEN ToLowerCase(host) ELSE host,
              pathname |-> IF special /\ path = <<>> THEN <<"/">> ELSE path,
              search |-> UrlSearchOf(rest)]))))

\* `a` is the text after the scheme (and the slashes), its authority ends
\* before position e
UrlSplitAuthority(scheme, a, e, special) ==
    UrlAuthority(scheme, SubSeq(a, 1, e - 1), SubSeq(a, e, Len(a)), special)

\* what follows "scheme:"
UrlAfterScheme(scheme, after) ==
    IF scheme \in SpecialSchemes
    THEN Let(SkipChars(after, {"/", "\\"}), LAMBDA a :
             UrlSplitAuthority(scheme, a,
                               IndexFrom(a, {"/", "\\", "?", "#"}, 1), TRUE))
    ELSE IF StartsWith(after, <<"/", "/">>)
    THEN Let(SubSeq(after, 3, Len(after)), LAMBDA a :
             UrlSplitAuthority(scheme, a, IndexFrom(a, {"/", "?", "#"}, 1), FALSE))
    ELSE [ok |-> TRUE,
          protocol |-> scheme \o <<":">>,
          hostname |-> <<>>,
          pathname |-> UrlPathOf(after),
          search |-> UrlSearchOf(after)]

ParseURL(input) ==
    Let(Trim(input), LAMBDA s :
    Let(IndexFrom(s, {":"}, 1), LAMBDA colon :
        IF /\ s # <<>>
           /\ s[1] \in AsciiAlpha
           /\ colon <= Len(s)
           /\ \A i \in 2..(colon - 1) : s[i] \in SchemeChars
        THEN UrlAfterScheme(ToLowerCase(SubSeq(s, 1, colon - 1)),
                            SubSeq(s, colon + 1, Len(s)))
        ELSE UrlFailure))

(***************************************************************************)
(* The platform's Headers class: a list of name/value pairs, names kept    *)
(* lower-cased; get() joins the values of one name with ", "; iteration    *)
(* goes by sorted name with the values of one name combined.               *)
(***************************************************************************)
HeaderTokenChars == AsciiAlpha \cup AsciiDigit \cup {"-", "_", ".", "+"}
HeaderNameValid(name) ==
    name # <<>> /\ \A i \in 1..Len(name) : name[i] \in HeaderTokenChars

HeadersAppend(headers, name, value) ==
    Append(headers, [name |-> ToLowerCase(name), value |-> value])

HeaderValues(headers, name) ==
    Let(SelectSeq(headers, LAMBDA e : e.name = ToLowerCase(name)), LAMBDA own :
        [i \in 1..Len(own) |-> own[i].value])

RECURSIVE JoinValues(_)
JoinValues(values) ==
    IF Len(values) = 1 THEN values[1]
    ELSE values[1] \o <<",", " ">> \o JoinValues(Tail(values))

HeadersHas(headers, name) == HeaderValues(headers, name) # <<>>
HeadersGet(headers, name) ==
    Let(HeaderValues(headers, name), LAMBDA values :
        IF values = <<>> THEN None ELSE Some(JoinValues(values)))

RECURSIVE SortNames(_)
SortNames(names) ==
    IF names = {} THEN <<>>
    ELSE Let(CHOOSE n \in names : \A m \in names \ {n} : StrLess(n, m),
             LAMBDA least : <<least>> \o SortNames(names \ {least}))

\* headers.forEach((value, name) => entries.push({name, value}))
headersToEntries(headers) ==
    Let(SortNames({headers[i].name : i \in 1..Len(headers)}), LAMBDA sorted :
        [i \in 1..Len(sorted) |->
            [name |-> sorted[i], value |-> HeadersGet(headers, sorted[i])[1]]])

(***************************************************************************)
(* Literal text of the source.  Text that is only reported, never parsed,  *)
(* is kept as one element per literal piece.                               *)
(***************************************************************************)
Http == <<"h", "t", "t", "p">>
HttpsPrefix == <<"h", "t", "t", "p", "s", ":", "/", "/">>
LocationName == <<"l", "o", "c", "a", "t", "i", "o", "n">>
TransferEncodingName ==
    <<"t", "r", "a", "n", "s", "f", "e", "r", "-",
      "e", "n", "c", "o", "d", "i", "n", "g">>
Chunked == <<"c", "h", "u", "n", "k", "e", "d">>

COMPARE_HEADERS ==
    << <<"c", "o", "n", "t", "e", "n", "t", "-", "t", "y", "p", "e">>,
       <<"s", "e", "r", "v", "e", "r">>,
       <<"x", "-", "f", "r", "a", "m", "e", "-",
         "o", "p", "t", "i", "o", "n", "s">>,
       <<"s", "t", "r", "i", "c", "t", "-", "t", "r", "a", "n", "s", "p",
         "o", "r", "t", "-", "s", "e", "c", "u", "r", "i", "t", "y">>,
       <<"c", "o", "n", "t", "e", "n", "t", "-", "s", "e", "c", "u", "r",
         "i", "t", "y", "-", "p", "o", "l", "i", "c", "y">>,
       <<"x", "-", "c", "o", "n", "t", "e", "n", "t", "-", "t", "y", "p",
         "e", "-", "o", "p", "t", "i", "o", "n", "s">>,
       <<"x", "-", "x", "s", "s", "-", "p", "r", "o", "t", "e", "c", "t",
         "i", "o", "n">>,
       <<"c", "a", "c", "h", "e", "-", "c", "o", "n", "t", "r", "o", "l">> >>

SIMHASH_MAX_RESPONSE_SIZE == 500000
SIMHASH_MAX_DISTANCE == 10

(***************************************************************************)
(* stripIrrelevantHtml: the two global, case-insensitive replacements.     *)
(* A regular expression is matched as the engine matches it: leftmost      *)
(* start, greedy quantifiers giving back one unit at a time, the scan      *)
(* resuming after the end of each match.                                   *)
(***************************************************************************)
Quotes == {"\"", "'"}
ScriptName == <<"s", "c", "r", "i", "p", "t">>
StyleName == <<"s", "t", "y", "l", "e">>
NonceAttr == <<"n", "o", "n", "c", "e", "=">>
InputTag == <<"<", "i", "n", "p", "u", "t">>
NameAttr == <<"n", "a", "m", "e", "=">>
ViewState == <<"_", "_", "V", "I", "E", "W", "S", "T", "A", "T", "E">>

\* the literal `lit` stands at position i of s, letter case ignored
LitAt(s, i, lit) ==
    /\ i >= 1
    /\ i + Len(lit) - 1 <= Len(s)
    /\ ToLowerCase(SubSeq(s, i, i + Len(lit) - 1)) = ToLowerCase(lit)

\* the first position at or after i that does not hold one of `chars`
SkipWhile(s, chars, i) ==
    Let({k \in Max(i, 1)..Len(s) : s[k] \notin chars}, LAMBDA others :
        IF others = {} THEN Max(Len(s) + 1, i) ELSE Least(others))

NoMatch == [found |-> FALSE, end |-> 0, text |-> <<>>]

\* /<(script|style)([^>]*)\s+nonce=["'][^"']*["']([^>]*)>/ tried at position i;
\* the replacement is "<$1$2$3>"
NonceTagName(s, i) ==
    IF LitAt(s, i + 1, ScriptName) THEN Len(ScriptName)
    ELSE IF LitAt(s, i + 1, StyleName) THEN Len(StyleName)
    ELSE 0
\* \s+ starting at k takes the whole run of white space
NonceAt(s, k) == SkipWhile(s, WhiteSpace, k)
NonceValueEnd(s, k) == IndexFrom(s, Quotes, NonceAt(s, k) + Len(NonceAttr) + 1)
NonceTagEnd(s, k) == IndexFrom(s, {">"}, NonceValueEnd(s, k) + 1)
\* \s+ may start at k and the rest of the pattern follows
NonceStartsAt(s, k) ==
    /\ s[k] \in WhiteSpace
    /\ Let(NonceAt(s, k), LAMBDA n :
           /\ LitAt(s, n, NonceAttr)
           /\ n + Len(NonceAttr) <= Len(s)
           /\ s[n + Len(NonceAttr)] \in Quotes)
    /\ NonceValueEnd(s, k) <= Len(s)
    /\ NonceTagEnd(s, k) <= Len(s)

NonceMatchAt(s, i) ==
    IF i > Len(s) \/ s[i] # "<" THEN NoMatch
    ELSE
      Let(NonceTagName(s, i), LAMBDA nameLen :
      Let(i + 1 + nameLen, LAMBDA j :                 \* where $2 starts
      \* $2 and \s+ hold no ">"
      Let({k \in j..(IndexFrom(s, {">"}, j) - 1) : NonceStartsAt(s, k)},
          LAMBDA starts :
            IF nameLen = 0 \/ starts = {} THEN NoMatch
            ELSE
              \* $2 is greedy: the longest $2, so the last possible start of \s+
              Let(Greatest(starts), LAMBDA k :
                  [found |-> TRUE,
                   end |-> NonceTagEnd(s, k),
                   text |-> <<"<">> \o SubSeq(s, i + 1, j - 1)
                            \o SubSeq(s, j, k - 1)
                            \o SubSeq(s, NonceValueEnd(s, k) + 1,
                                      NonceTagEnd(s, k) - 1)
                            \o <<">">>]))))

\* /<input[^>]*name=["']__VIEWSTATE["'][^>]*>/ tried at position i; replaced by ""
ViewStateAttrEnd(k) == k + Len(NameAttr) + 1 + Len(ViewState)   \* the closing quote
ViewStateAttrAt(s, k) ==
    /\ LitAt(s, k, NameAttr)
    /\ ViewStateAttrEnd(k) <= Len(s)
    /\ s[k + Len(NameAttr)] \in Quotes
    /\ LitAt(s, k + Len(NameAttr) + 1, ViewState)
    /\ s[ViewStateAttrEnd(k)] \in Quotes

ViewStateMatchAt(s, i) ==
    IF i > Len(s) \/ s[i] # "<" THEN NoMatch
    ELSE IF ~LitAt(s, i, InputTag) THEN NoMatch
    ELSE
      Let(i + Len(InputTag), LAMBDA j :
      Let({k \in j..(IndexFrom(s, {">"}, j) - 1) : ViewStateAttrAt(s, k)},
          LAMBDA starts :
            IF starts = {} THEN NoMatch
            ELSE
              Let(IndexFrom(s, {">"}, ViewStateAttrEnd(Greatest(starts)) + 1),
                  LAMBDA end :
                    IF end > Len(s) THEN NoMatch
                    ELSE [found |-> TRUE, end |-> end, text |-> <<>>])))

\* s.replace(/.../g, ...) from position i on: the text up to the leftmost
\* match is kept, the match replaced, the scan resumed after it
RECURSIVE ReplaceNonces(_, _)
ReplaceNonces(s, i) ==
    Let({k \in i..Len(s) : s[k] = "<" /\ NonceMatchAt(s, k).found}, LAMBDA at :
        IF at = {} THEN SubSeq(s, i, Len(s))
        ELSE Let(NonceMatchAt(s, Least(at)), LAMBDA m :
                 SubSeq(s, i, Least(at) - 1) \o m.text
                 \o ReplaceNonces(s, m.end + 1)))

RECURSIVE ReplaceViewStates(_, _)
ReplaceViewStates(s, i) ==
    Let({k \in i..Len(s) : s[k] = "<" /\ ViewStateMatchAt(s, k).found}, LAMBDA at :
        IF at = {} THEN SubSeq(s, i, Len(s))
        ELSE Let(ViewStateMatchAt(s, Least(at)), LAMBDA m :
                 SubSeq(s, i, Least(at) - 1) \o m.text
                 \o ReplaceViewStates(s, m.end + 1)))

stripIrrelevantHtml(html) ==
    Let(html, LAMBDA input :
    Let(ReplaceNonces(input, 1), LAMBDA replaced : ReplaceViewStates(replaced, 1)))

(***************************************************************************)
(* Addresses and the environment's answers.                                *)
(***************************************************************************)
V4a == <<"1", "0", ".", "0", ".", "0", ".", "1">>
V4b == <<"1", "0", ".", "0", ".", "0", ".", "2">>
V6a == <<"f", "d", ":", ":", "1">>
V6b == <<"f", "d", ":", ":", "2">>

Families == {"ipv4", "ipv6"}
RecordTypeOf(fam) == IF fam = "ipv4" THEN "A" ELSE "AAAA"

\* What one Deno.resolveDns call may do: throw, or return a list of records of
\* the type asked for.  `pick` selects the list's first record.
DnsOutcomes == {"throw", "empty", "one", "two"}
DenoResolveDns(type, outcome, first, second) ==
    [throws |-> outcome = "throw",
     records |-> CASE outcome = "one" -> <<first>>
                   [] outcome = "two" -> <<first, second>>
                   [] OTHER -> <<>>]

\* async function resolveDns(hostname, type): never rejects
resolveDns(answer) ==
    IF answer.throws THEN None
    ELSE IF Len(answer.records) > 0 THEN Some(answer.records[1]) ELSE None

\* async function checkPort(address, port): never rejects
checkPort(connected) == IF connected THEN TRUE ELSE FALSE

(***************************************************************************)
(* rawHttpGet: one request over a plain TCP connection to port 80.  The    *)
(* environment supplies `wire`: the exception that connecting, writing or  *)
(* reading raises; or text without a blank line; or text whose first line  *)
(* is no status line; or the status and the raw header lines and raw body  *)
(* of the response read.                                                   *)
(***************************************************************************)
WireThrow(message) ==
    [kind |-> "throw", message |-> message, status |-> 0,
     lines |-> <<>>, bodyRaw |-> <<>>]
WireNoBoundary ==
    [kind |-> "noboundary", message |-> <<>>, status |-> 0,
     lines |-> <<>>, bodyRaw |-> <<>>]
WireBadStatus(firstLine) ==
    [kind |-> "badstatus", message |-> firstLine, status |-> 0,
     lines |-> <<>>, bodyRaw |-> <<>>]
WireResponse(status, lines, bodyRaw) ==
    [kind |-> "resp", message |-> <<>>, status |-> status,
     lines |-> lines, bodyRaw |-> bodyRaw]

\* the loop over headerLines[1..]: split at the first colon, trim, append
RECURSIVE BuildHeaders(_, _)
BuildHeaders(lines, headers) ==
    IF lines = <<>> THEN [threw |-> FALSE, headers |-> headers]
    ELSE
      Let(lines[1], LAMBDA line :
      Let(IndexFrom(line, {":"}, 1), LAMBDA colonIdx :
        IF colonIdx > 1 /\ colonIdx <= Len(line)
        THEN Let(Trim(SubSeq(line, 1, colonIdx - 1)), LAMBDA name :
               IF HeaderNameValid(name)
               THEN BuildHeaders(
                      Tail(lines),
                      HeadersAppend(headers, name,
                                    Trim(SubSeq(line, colonIdx + 1, Len(line)))))
               ELSE [threw |-> TRUE, headers |-> headers])
        ELSE BuildHeaders(Tail(lines), headers)))

\* s.includes(sub)
IncludesStr(s, sub) ==
    \E i \in 1..(Len(s) - Len(sub) + 1) : SubSeq(s, i, i + Len(sub) - 1) = sub

\* 0-based s.indexOf(sub, from0): -1 when absent, a negative from0 counts as 0
IndexOfStr(s, sub, from0) ==
    Let({i \in (Max(from0, 0) + 1)..(Len(s) - Len(sub) + 1) :
            SubSeq(s, i, i + Len(sub) - 1) = sub},
        LAMBDA hits : IF hits = {} THEN -1 ELSE Least(hits) - 1)

HexDigits ==
    <<"0", "1", "2", "3", "4", "5", "6", "7", "8", "9",
      "a", "b", "c", "d", "e", "f">>
HexChars == {c \in Range(CharOrder) : ToLowerChar(c) \in Range(HexDigits)}
HexValue(c) == (CHOOSE i \in 1..16 : HexDigits[i] = ToLowerChar(c)) - 1

RECURSIVE HexNumber(_)
HexNumber(digits) ==
    IF digits = <<>> THEN 0
    ELSE 16 * HexNumber(SubSeq(digits, 1, Len(digits) - 1))
         + HexValue(digits[Len(digits)])

\* parseInt(str, 16): leading white space, a sign, an optional 0x, then the
\* longest run of hexadecimal digits; NaN when that run is empty
ParseIntHex(str) ==
    Let(TrimStart(str), LAMBDA t :
    Let(IF t # <<>> /\ t[1] \in {"+", "-"} THEN Tail(t) ELSE t, LAMBDA u :
    Let(IF Len(u) >= 2 /\ u[1] = "0" /\ u[2] \in {"x", "X"}
        THEN SubSeq(u, 3, Len(u)) ELSE u, LAMBDA v :
    Let(SkipWhile(v, HexChars, 1) - 1, LAMBDA n :
        IF n = 0 THEN [nan |-> TRUE, value |-> 0]
        ELSE [nan |-> FALSE,
              value |-> IF t[1] = "-" THEN 0 - HexNumber(SubSeq(v, 1, n))
                        ELSE HexNumber(SubSeq(v, 1, n))]))))

CRLF == <<"\r", "\n">>

\* The chunked-decoding loop, pos 0-based.  What an iteration does depends on
\* Max(pos, 0) alone, so once a position in `seen` comes back the loop never
\* ends.
RECURSIVE DecodeChunkedLoop(_, _, _, _)
DecodeChunkedLoop(raw, pos, body, seen) ==
    IF ~(pos < Len(raw)) THEN [hangs |-> FALSE, body |-> body]
    ELSE IF Max(pos, 0) \in seen THEN [hangs |-> TRUE, body |-> body]
    ELSE
      Let(IndexOfStr(raw, CRLF, pos), LAMBDA lineEnd :
        IF lineEnd = -1 THEN [hangs |-> FALSE, body |-> body]
        ELSE
          Let(ParseIntHex(Trim(Substring(raw, pos, lineEnd))), LAMBDA size :
            IF size.nan \/ size.value = 0 THEN [hangs |-> FALSE, body |-> body]
            ELSE DecodeChunkedLoop(
                   raw, lineEnd + 2 + size.value + 2,
                   body \o Substring(raw, lineEnd + 2, lineEnd + 2 + size.value),
                   seen \cup {Max(pos, 0)})))

decodeChunked(raw) == DecodeChunkedLoop(raw, 0, <<>>, {})

\* the request framed with the literal address as its Host header
RawRequest_HostIsAddress(ip, host, path) ==
    [ip |-> ip, port |-> 80, transport |-> "tcp", host |-> ip, path |-> path]

\* the connection opened to the port of the https scheme
RawRequest_Port443(ip, host, path) ==
    [ip |-> ip, port |-> 443, transport |-> "tls", host |-> host, path |-> path]

\* Deno.connect({hostname: ip, port: 80, transport: "tcp"}) and the request
\* text "GET <path> HTTP/1.1", "Host: <hostname>"
RawRequest(ip, host, path) ==
    [ip |-> ip, port |-> 80, transport |-> "tcp", host |-> host, path |-> path]

\* a rejection of the promise
RawFailure(message) ==
    [threw |-> TRUE, hangs |-> FALSE, message |-> message,
     status |-> 0, headers |-> <<>>, body |-> <<>>]

\* headers.get("transfer-encoding")?.includes("chunked") ? decoded : bodyRaw
RawBody(headers, bodyRaw) ==
    Let(HeadersGet(headers, TransferEncodingName), LAMBDA te :
        IF te # None /\ IncludesStr(te[1], Chunked)
        THEN decodeChunked(bodyRaw)
        ELSE [hangs |-> FALSE, body |-> bodyRaw])

rawHttpGet(ip, host, path, wire) ==
    IF wire.kind = "throw" THEN RawFailure(wire.message)
    ELSE IF wire.kind = "noboundary"
    THEN RawFailure(<<"No header boundary in response">>)
    ELSE IF wire.kind = "badstatus"
    THEN RawFailure(<<"Bad status line: ">> \o wire.message)
    ELSE
      Let(BuildHeaders(wire.lines, <<>>), LAMBDA built :
        IF built.threw THEN RawFailure(<<"Invalid header name">>)
        ELSE
          Let(RawBody(built.headers, wire.bodyRaw), LAMBDA decoded :
              [threw |-> FALSE, hangs |-> decoded.hangs, message |-> <<>>,
               status |-> wire.status, headers |-> built.headers,
               body |-> decoded.body]))

(***************************************************************************)
(* fetchViaIP: the redirect loop.  `script` is what the environment does   *)
(* during the call: hops[k] is the wire outcome of the k-th request (the   *)
(* last one repeats), dns the outcome of every re-resolution.  The value   *)
(* is the promise's outcome: fulfilled with a FetchResult or a string, or  *)
(* rejected, or never settled; with the requests sent and the lookups made.*)
(***************************************************************************)
HopAt(script, i) == script.hops[Min(i + 1, Len(script.hops))]

FetchString(str, requests, lookups) ==
    [settled |-> TRUE, rejected |-> FALSE, isString |-> TRUE, str |-> str,
     status |-> 0, headers |-> <<>>, body |-> <<>>, redirectChain |-> <<>>,
     requests |-> requests, lookups |-> lookups]
FetchObject(resp, redirectChain, requests, lookups) ==
    [settled |-> TRUE, rejected |-> FALSE, isString |-> FALSE, str |-> <<>>,
     status |-> resp.status, headers |-> resp.headers, body |-> resp.body,
     redirectChain |-> redirectChain,
     requests |-> requests, lookups |-> lookups]
FetchRejected(message, requests, lookups) ==
    [settled |-> TRUE, rejected |-> TRUE, isString |-> TRUE, str |-> message,
     status |-> 0, headers |-> <<>>, body |-> <<>>, redirectChain |-> <<>>,
     requests |-> requests, lookups |-> lookups]
FetchNeverSettles(requests, lookups) ==
    [settled |-> FALSE, rejected |-> FALSE, isString |-> TRUE, str |-> <<>>,
     status |-> 0, headers |-> <<>>, body |-> <<>>, redirectChain |-> <<>>,
     requests |-> requests, lookups |-> lookups]

\* a catch that returns an empty FetchResult in place of the message
FetchCatch_ReturnsEmptyResult(message, requests, lookups) ==
    [FetchString(<<>>, requests, lookups) EXCEPT !.isString = FALSE]

\* catch (e) { return e instanceof Error ? e.message : String(e); }
FetchCatch(message, requests, lookups) ==
    FetchString(message, requests, lookups)

\* a budget of one redirect more
MaxRedirectsOf_Eleven(followRedirects) == IF followRedirects THEN 11 ELSE 0

\* const maxRedirects = followRedirects ? 10 : 0
MaxRedirectsOf(followRedirects) == IF followRedirects THEN 10 ELSE 0

\* the address the network's DNS holds for a hostname, per record type
AddressOf(type, host) ==
    IF host = <<"a", ".", "i", "o">>
    THEN (IF type = "A" THEN V4a ELSE V6a)
    ELSE (IF type = "A" THEN V4b ELSE V6b)

\* a re-resolution that always asks for A records
ReResolveType_AlwaysA(ip) == "A"

\* ip.includes(":") ? "AAAA" : "A", ip being the address the fetch started with
ReResolveType(ip) == IF Includes(ip, ":") THEN "AAAA" ELSE "A"

\* u.pathname + u.search || "/"
\* the path taken from the Location without its query
RedirectPath_PathnameOnly(u) == u.pathname

RedirectPath(u) ==
    Let(u.pathname \o u.search, LAMBDA joined :
        IF joined = <<>> THEN <<"/">> ELSE joined)

\* the redirect test without its followRedirects conjunct
IsFollowedRedirect_IgnoresFlag(followRedirects, resp) ==
    /\ resp.status >= 300
    /\ resp.status < 400
    /\ HeadersHas(resp.headers, LocationName)

\* followRedirects && resp.status >= 300 && resp.status < 400 &&
\* resp.headers.has("location")
IsFollowedRedirect(followRedirects, resp) ==
    /\ followRedirects
    /\ resp.status >= 300
    /\ resp.status < 400
    /\ HeadersHas(resp.headers, LocationName)

RECURSIVE FetchLoop(_, _, _, _, _, _, _, _, _)
RECURSIVE FetchRedirect(_, _, _, _, _, _, _, _, _)

\* the redirect branch of an iteration: `location` is the Location header,
\* `redirectChain` already holds it, `trace` holds the request just made
FetchRedirect(i, ip, followRedirects, script, currentIp, currentHostname, location, redirectChain, trace) ==
    IF StartsWith(location, Http)
    THEN
      Let(ParseURL(location), LAMBDA u :
        IF ~u.ok
        THEN FetchCatch(<<"Invalid URL">>, trace.requests, trace.lookups)
        ELSE IF u.hostname # currentHostname
        THEN
          Let(ReResolveType(ip), LAMBDA type :
          Let(Append(trace.lookups, [hostname |-> u.hostname, type |-> type]),
              LAMBDA lookups :
          Let(resolveDns(
                DenoResolveDns(type, script.dns,
                               AddressOf(type, u.hostname),
                               IF type = "A" THEN V4a ELSE V6a)),
              LAMBDA newIp :
                IF newIp = None
                THEN FetchString(<<"DNS re-resolve failed for ">> \o u.hostname,
                                 trace.requests, lookups)
                ELSE FetchLoop(i + 1, ip, followRedirects, script,
                               newIp[1], u.hostname, RedirectPath(u),
                               redirectChain,
                               [requests |-> trace.requests,
                                lookups |-> lookups]))))
        ELSE FetchLoop(i + 1, ip, followRedirects, script,
                       currentIp, currentHostname, RedirectPath(u),
                       redirectChain, trace))
    ELSE FetchLoop(i + 1, ip, followRedirects, script,
                   currentIp, currentHostname, location, redirectChain, trace)

FetchLoop(i, ip, followRedirects, script, currentIp, currentHostname, currentPath, redirectChain, trace) ==
    IF ~(i <= MaxRedirectsOf(followRedirects))
    THEN FetchString(<<"Too many redirects">>, trace.requests, trace.lookups)
    ELSE
      Let(rawHttpGet(currentIp, currentHostname, currentPath, HopAt(script, i)),
          LAMBDA resp :
      Let(Append(trace.requests,
                 RawRequest(currentIp, currentHostname, currentPath)),
          LAMBDA requests :
        IF resp.hangs THEN FetchNeverSettles(requests, trace.lookups)
        ELSE IF resp.threw THEN FetchCatch(resp.message, requests, trace.lookups)
        ELSE IF IsFollowedRedirect(followRedirects, resp)
        THEN
          Let(HeadersGet(resp.headers, LocationName)[1], LAMBDA location :
              FetchRedirect(i, ip, followRedirects, script,
                            currentIp, currentHostname, location,
                            Append(redirectChain, location),
                            [requests |-> requests, lookups |-> trace.lookups]))
        ELSE FetchObject(resp, redirectChain, requests, trace.lookups)))

fetchViaIP(ip, host, followRedirects, script) ==
    FetchLoop(0, ip, followRedirects, script, ip, host, <<"/">>, <<>>,
              [requests |-> <<>>, lookups |-> <<>>])


(***************************************************************************)
(* The inputs the model draws from: query strings, header lines, bodies,   *)
(* and what the servers and the network do.                                *)
(***************************************************************************)
UrlBare == <<"a", ".", "i", "o">>
UrlHttp == <<"h", "t", "t", "p", ":", "/", "/", "b", ".", "i", "o">>
UrlHttpNamed == <<"h", "t", "t", "p", "b", "i", "n", ".", "i", "o">>
UrlSpace == <<"a", " ", "b">>
UrlNoHost == <<"h", "t", "t", "p", ":", "/", "/">>
HostA == <<"a", ".", "i", "o">>
HostB == <<"b", ".", "i", "o">>

\* ctx.url.searchParams.get("url"): null, or the text of the parameter
UrlParams ==
    {None} \cup {Some(u) : u \in {<<>>, UrlBare, UrlHttp, UrlHttpNamed,
                                  UrlSpace, UrlNoHost}}

LineServerX == <<"s", "e", "r", "v", "e", "r", ":", " ", "x">>
LineServerY == <<"S", "e", "r", "v", "e", "r", ":", " ", "y">>
LineServerEmpty == <<"s", "e", "r", "v", "e", "r", ":">>
LineCustomZ == <<"x", "-", "c", "u", "s", "t", "o", "m", ":", " ", "z">>
LineCustomQ == <<"x", "-", "c", "u", "s", "t", "o", "m", ":", " ", "q">>
LineCacheA ==
    <<"c", "a", "c", "h", "e", "-", "c", "o", "n", "t", "r", "o", "l",
      ":", " ", "a">>
LineCacheB ==
    <<"c", "a", "c", "h", "e", "-", "c", "o", "n", "t", "r", "o", "l",
      ":", " ", "b">>
LineCacheAB ==
    <<"c", "a", "c", "h", "e", "-", "c", "o", "n", "t", "r", "o", "l",
      ":", " ", "a", ",", " ", "b">>
LineLocRelative ==
    <<"l", "o", "c", "a", "t", "i", "o", "n", ":", " ", "/", "p">>
LineLocSameHost ==
    <<"L", "o", "c", "a", "t", "i", "o", "n", ":", " ", "h", "t", "t",
      "p", ":", "/", "/", "a", ".", "i", "o", "/", "q">>
LineLocOtherHost ==
    <<"l", "o", "c", "a", "t", "i", "o", "n", ":", " ", "h", "t", "t",
      "p", ":", "/", "/", "b", ".", "i", "o", "/", "q">>
LineLocInvalid ==
    <<"l", "o", "c", "a", "t", "i", "o", "n", ":", " ", "h", "t", "t",
      "p", ":", "/", "/">>
LineNoColon == <<"g", "a", "r", "b", "a", "g", "e">>
LineChunked ==
    <<"t", "r", "a", "n", "s", "f", "e", "r", "-", "e", "n", "c", "o", "d",
      "i", "n", "g", ":", " ", "c", "h", "u", "n", "k", "e", "d">>

HeaderLineLists ==
    { <<>>,
      <<LineServerY, LineCustomZ>>,
      <<LineServerX, LineNoColon, LineCustomQ>>,
      <<LineServerX, LineCacheA, LineCacheB>>,
      <<LineServerX, LineCacheAB>> }

BodyEmpty == <<>>
BodyAB == <<"a", "b">>
BodyAstral == <<"HI", "LO">>
BodyLongA == Rep("a", 94) \o Rep("b", 10)
BodyLongB == Rep("a", 94) \o Rep("c", 11)
Bodies == {BodyEmpty, BodyAB, BodyAstral, BodyLongA, BodyLongB}
\* a chunked body whose size line is negative
BodyChunkBack == <<"-", "6", "\r", "\n", "a", "b">>

FinalWires ==
    {WireResponse(200, <<LineServerX>>, b) : b \in Bodies}
    \cup {WireResponse(404, <<LineServerX>>, BodyAB)}
    \cup {WireResponse(200, h, BodyAB) : h \in HeaderLineLists}
RedirectWires ==
    {WireResponse(301, <<l>>, BodyEmpty) :
        l \in {LineLocRelative, LineLocOtherHost, LineLocInvalid}}
ThrowWires ==
    {WireThrow(<<"Connection refused">>), WireThrow(<<>>), WireNoBoundary,
     WireBadStatus(LineNoColon),
     WireResponse(200, <<LineChunked>>, BodyChunkBack)}
WireOK == WireResponse(200, <<LineServerX>>, BodyAB)
WireLoop == WireResponse(301, <<LineLocRelative>>, BodyEmpty)

\* what the network does during one fetchViaIP call: the answer to each
\* connection in turn, and the answer to a lookup of a redirect's host
Scripts ==
    {[hops |-> <<w>>, dns |-> "one"] : w \in FinalWires \cup ThrowWires}
    \cup {[hops |-> <<r, WireOK>>, dns |-> "one"] : r \in RedirectWires}
    \cup {[hops |-> <<WireResponse(301, <<LineLocOtherHost>>, BodyEmpty), WireOK>>,
           dns |-> d] : d \in {"empty", "throw"}}
    \cup {[hops |-> [k \in 1..11 |-> IF k <= 10 THEN WireLoop ELSE WireOK],
           dns |-> "one"],
          [hops |-> <<WireLoop>>, dns |-> "one"]}

\* every way a fetchViaIP(ip, host, followRedirects) call can settle under
\* the scripts above, tabulated per argument triple
FetchIps == {V4a, V6a}
FetchHosts == {HostA, HostB}
FetchOutcomes ==
    [ip \in FetchIps |-> [host \in FetchHosts |-> [follow \in BOOLEAN |->
        {fetchViaIP(ip, host, follow, script) : script \in Scripts}]]]

(***************************************************************************)
(* handler.GET: the verdict document (TestResult) and how it is filled.    *)
(* similarityPercent is kept in tenths of a percent (1000 is 100%).        *)
(***************************************************************************)
InitialPortResult == [ipv4 |-> FALSE, ipv6 |-> FALSE, equal |-> FALSE]

InitialResult(url, host, ipv4, ipv6) ==
    [url |-> url,
     hostname |-> host,
     ipv4Address |-> ipv4,
     ipv6Address |-> ipv6,
     portCheck |-> [http |-> InitialPortResult, https |-> InitialPortResult],
     headerComparison |->
        [ipv4StatusCode |-> None, ipv6StatusCode |-> None, statusEqual |-> FALSE,
         headerDiffs |-> <<>>, ipv4Headers |-> <<>>, ipv6Headers |-> <<>>],
     contentComparison |-> [similarityPercent |-> None, pass |-> FALSE],
     followedRedirects |-> [ipv4 |-> <<>>, ipv6 |-> <<>>],
     overallPass |-> FALSE,
     error |-> None,
     debug |-> None]

\* (the source's dash in the two messages below is written "-")
ErrorNoRecords == <<"Could not resolve any DNS records for this hostname">>
ErrorNoAAAA == <<"No AAAA (IPv6) record found - IPv6 not available">>
ErrorNoA == <<"No A (IPv4) record found - IPv4 not available">>

\* the early returns without the third one (`if (!ipv4)`)
DnsError_IgnoresMissingIPv4(ipv4, ipv6) ==
    IF ipv4 = None /\ ipv6 = None THEN Some(ErrorNoRecords)
    ELSE IF ipv6 = None THEN Some(ErrorNoAAAA)
    ELSE None

\* the three early returns after the DNS stage; None when the handler goes on
DnsError(ipv4, ipv6) ==
    IF ipv4 = None /\ ipv6 = None THEN Some(ErrorNoRecords)
    ELSE IF ipv6 = None THEN Some(ErrorNoAAAA)
    ELSE IF ipv4 = None THEN Some(ErrorNoA)
    ELSE None

\* equal computed as "both reachable" instead of http4 === http6
PortResult_EqualIsBoth(v4, v6) == [ipv4 |-> v4, ipv6 |-> v6, equal |-> (v4 /\ v6)]

PortResult(v4, v6) == [ipv4 |-> v4, ipv6 |-> v6, equal |-> (v4 = v6)]

\* the same loop run over the header names received instead of `names`
HeaderDiffLoop_OverReceivedNames(names, headers4, headers6) ==
    Let(SortNames({headers4[i].name : i \in 1..Len(headers4)}
                  \cup {headers6[i].name : i \in 1..Len(headers6)}),
        LAMBDA received :
    Let(SelectSeq(received, LAMBDA header :
            HeadersGet(headers4, header) # HeadersGet(headers6, header)),
        LAMBDA pushed :
            [i \in 1..Len(pushed) |->
                [header |-> pushed[i],
                 ipv4Value |-> HeadersGet(headers4, pushed[i]),
                 ipv6Value |-> HeadersGet(headers6, pushed[i])]]))

\* for (const header of names) { v4 = ...get(header); v6 = ...get(header);
\*   if (v4 !== v6) headerDiffs.push({header, ipv4Value: v4, ipv6Value: v6}) }
HeaderDiffLoop(names, headers4, headers6) ==
    Let(SelectSeq(names, LAMBDA header :
            HeadersGet(headers4, header) # HeadersGet(headers6, header)),
        LAMBDA pushed :
            [i \in 1..Len(pushed) |->
                [header |-> pushed[i],
                 ipv4Value |-> HeadersGet(headers4, pushed[i]),
                 ipv6Value |-> HeadersGet(headers6, pushed[i])]])

\* distance = 100 - ratio * 100;  pass = distance <= SIMHASH_MAX_DISTANCE
ContentPass(ratio) ==
    100 * ratio.den - 100 * ratio.num <= SIMHASH_MAX_DISTANCE * ratio.den

\* Math.round(ratio * 1000) / 10, in tenths: Math.round is floor(x + 1/2)
SimilarityPercent(ratio) == (2 * 1000 * ratio.num + ratio.den) \div (2 * ratio.den)

\* the conjunction without result.headerComparison.statusEqual
OverallPass_WithoutStatus(r) ==
    /\ r.portCheck.http.equal
    /\ r.portCheck.https.equal
    /\ r.contentComparison.pass

OverallPass(r) ==
    /\ r.portCheck.http.equal
    /\ r.portCheck.https.equal
    /\ r.headerComparison.statusEqual
    /\ r.contentComparison.pass

\* the branch `if (resp4 && resp6)`
ScoredWith(r, resp4, resp6, ratio) ==
    Let([r EXCEPT
             !.headerComparison =
                [ipv4StatusCode |-> Some(resp4.status),
                 ipv6StatusCode |-> Some(resp6.status),
                 statusEqual |-> (resp4.status = resp6.status),
                 headerDiffs |-> HeaderDiffLoop(COMPARE_HEADERS,
                                                resp4.headers, resp6.headers),
                 ipv4Headers |-> headersToEntries(resp4.headers),
                 ipv6Headers |-> headersToEntries(resp6.headers)],
             !.contentComparison =
                [similarityPercent |-> Some(SimilarityPercent(ratio)),
                 pass |-> ContentPass(ratio)],
             !.followedRedirects =
                [ipv4 |-> resp4.redirectChain, ipv6 |-> resp6.redirectChain]],
        LAMBDA filled : [filled EXCEPT !.overallPass = OverallPass(filled)])

\* the body normalized whole, without the substring
ScorerInput_NotTruncated(body) == stripIrrelevantHtml(body)

\* stripIrrelevantHtml(resp.body.substring(0, SIMHASH_MAX_RESPONSE_SIZE))
ScorerInput(body) ==
    stripIrrelevantHtml(Substring(body, 0, SIMHASH_MAX_RESPONSE_SIZE))

Scored(r, resp4, resp6) ==
    Let(ScorerInput(resp4.body), LAMBDA html4 :
    Let(ScorerInput(resp6.body), LAMBDA html6 :
    Let(sequenceMatcherQuickRatio(html4, html6),
        LAMBDA ratio : ScoredWith(r, resp4, resp6, ratio))))

\* the else branch leaving result.debug as it was
FetchFailed_NoDebug(r, r4, r6) ==
    [r EXCEPT
       !.error = Some(<<"Could not fetch content: ",
                        "IPv4 ", IF r4.isString THEN "failed" ELSE "OK", ", ",
                        "IPv6 ", IF r6.isString THEN "failed" ELSE "OK">>)]

\* the else branch also reporting the chain of a family that got a response
FetchFailed_ReportsChains(r, r4, r6) ==
    [r EXCEPT
       !.error = Some(<<"Could not fetch content: ",
                        "IPv4 ", IF r4.isString THEN "failed" ELSE "OK", ", ",
                        "IPv6 ", IF r6.isString THEN "failed" ELSE "OK">>),
       !.followedRedirects = [ipv4 |-> r4.redirectChain, ipv6 |-> r6.redirectChain],
       !.debug = Some([ipv4Error |-> IF r4.isString /\ r4.str # <<>>
                                     THEN Some(r4.str) ELSE None,
                       ipv6Error |-> IF r6.isString /\ r6.str # <<>>
                                     THEN Some(r6.str) ELSE None])]

\* the else branch: at least one fetch gave a string
FetchFailed(r, r4, r6) ==
    [r EXCEPT
       !.error = Some(<<"Could not fetch content: ",
                        "IPv4 ", IF r4.isString THEN "failed" ELSE "OK", ", ",
                        "IPv6 ", IF r6.isString THEN "failed" ELSE "OK">>),
       !.debug = Some([ipv4Error |-> IF r4.isString /\ r4.str # <<>>
                                     THEN Some(r4.str) ELSE None,
                       ipv6Error |-> IF r6.isString /\ r6.str # <<>>
                                     THEN Some(r6.str) ELSE None])]

JsonResponse(status, body) == [kind |-> "json", status |-> status, body |-> body]
Rejection == [kind |-> "rejected", status |-> 0, body |-> [error |-> None]]

\* new URL(url.startsWith("http") ? url : `https://${url}`)
UrlToParse(url) == IF StartsWith(url, Http) THEN url ELSE HttpsPrefix \o url

\* the parse without its try / catch
ParseHostname_NoCatch(url) == Some(ParseURL(UrlToParse(url)).hostname)

\* try { hostname = new URL(...).hostname } catch { return 400 }:
\* None when new URL throws
ParseHostname(url) ==
    Let(ParseURL(UrlToParse(url)), LAMBDA parsed :
        IF parsed.ok THEN Some(parsed.hostname) ELSE None)

Idle == [st |-> "idle", val |-> None]
Pending == [st |-> "pending", val |-> None]
Done(v) == [st |-> "done", val |-> Some(v)]

PortNames == {"http", "https"}
PortNumber(p) == IF p = "http" THEN 80 ELSE 443

(***************************************************************************)
(* The GET handler as a state machine.  Each awaited operation completes   *)
(* in a step of its own; the handler resumes (After...) once every promise *)
(* of a Promise.all has settled.                                           *)
(***************************************************************************)
EmptyOut == [fwd |-> None, rev |-> None]

HandlerIdle ==
    /\ req = None
    /\ hostname = None
    /\ dns = [f \in Families |-> Idle]
    /\ ports = [k \in Families \X PortNames |-> Idle]
    /\ fetches = [f \in Families |-> Idle]
    /\ result = None
    /\ response = None
    /\ net = [lookups |-> 0, probes |-> 0, fetches |-> 0]

Init ==
    /\ phase = "idle"
    /\ HandlerIdle
    /\ argA = <<>>
    /\ argB = <<>>
    /\ out = EmptyOut

BadRequest(message) == JsonResponse(400, [error |-> Some(message)])

\* url / followRedirects read, the input validated, the two lookups issued
Get(url, followRedirects) ==
    /\ phase = "idle"
    /\ req' = Some([url |-> url, followRedirects |-> followRedirects])
    /\ IF url = None \/ url[1] = <<>>
       THEN /\ response' = Some(BadRequest(<<"url parameter required">>))
            /\ phase' = "returned"
            /\ UNCHANGED <<hostname, dns, net>>
       ELSE \E parsed \in {ParseHostname(url[1])} :
              IF parsed = None
              THEN /\ response' = Some(BadRequest(<<"Invalid URL">>))
                   /\ phase' = "returned"
                   /\ UNCHANGED <<hostname, dns, net>>
              ELSE /\ hostname' = parsed
                   /\ dns' = [f \in Families |-> Pending]
                   /\ net' = [net EXCEPT !.lookups = @ + 2]
                   /\ phase' = "dns"
                   /\ UNCHANGED response
    /\ UNCHANGED <<ports, fetches, result, pvars>>

\* one of resolveDns(hostname, "A") / resolveDns(hostname, "AAAA") completes
ResolveDns(fam, outcome) ==
    /\ phase = "dns"
    /\ dns[fam].st = "pending"
    /\ dns' = [dns EXCEPT ![fam] =
                 Done(resolveDns(
                        DenoResolveDns(RecordTypeOf(fam), outcome,
                                       IF fam = "ipv4" THEN V4a ELSE V6a,
                                       IF fam = "ipv4" THEN V4b ELSE V6b)))]
    /\ UNCHANGED <<phase, req, hostname, ports, fetches, result, response, net, pvars>>

\* result built; the early returns; otherwise the four probes issued
AfterDns ==
    /\ phase = "dns"
    /\ \A f \in Families : dns[f].st = "done"
    /\ \E r \in {InitialResult(req[1].url[1], hostname[1],
                               dns["ipv4"].val[1], dns["ipv6"].val[1])} :
         IF DnsError(r.ipv4Address, r.ipv6Address) # None
         THEN /\ result' =
                   Some([r EXCEPT !.error = DnsError(r.ipv4Address, r.ipv6Address)])
              /\ response' = Some(JsonResponse(200, result'[1]))
              /\ phase' = "returned"
              /\ UNCHANGED <<ports, net>>
         ELSE /\ result' = Some(r)
              /\ ports' = [k \in Families \X PortNames |-> Pending]
              /\ net' = [net EXCEPT !.probes = @ + 4]
              /\ phase' = "ports"
              /\ UNCHANGED response
    /\ UNCHANGED <<req, hostname, dns, fetches, pvars>>

\* a checkPort that connects once more after a refused connection
CheckPort_RetriesRefused(fam, p, connected) ==
    /\ phase = "ports"
    /\ ports[<<fam, p>>].st = "pending"
    /\ IF connected \/ net.probes >= 6
       THEN /\ ports' = [ports EXCEPT ![<<fam, p>>] = Done(checkPort(connected))]
            /\ UNCHANGED net
       ELSE /\ net' = [net EXCEPT !.probes = @ + 1]
            /\ UNCHANGED ports
    /\ UNCHANGED <<phase, req, hostname, dns, fetches, result, response, pvars>>

\* one of the four checkPort calls completes
CheckPort(fam, p, connected) ==
    /\ phase = "ports"
    /\ ports[<<fam, p>>].st = "pending"
    /\ ports' = [ports EXCEPT ![<<fam, p>>] = Done(checkPort(connected))]
    /\ UNCHANGED <<phase, req, hostname, dns, fetches, result, response, net, pvars>>

\* the content stage skipped, with an error, when port 80 is not open on both
AfterPorts_SkipsWhenClosed ==
    /\ phase = "ports"
    /\ \A k \in Families \X PortNames : ports[k].st = "done"
    /\ \E filled \in {[result[1] EXCEPT !.portCheck =
                         [http |-> PortResult(ports[<<"ipv4", "http">>].val[1],
                                              ports[<<"ipv6", "http">>].val[1]),
                          https |-> PortResult(ports[<<"ipv4", "https">>].val[1],
                                               ports[<<"ipv6", "https">>].val[1])]]} :
         IF filled.portCheck.http.ipv4 /\ filled.portCheck.http.ipv6
         THEN /\ result' = Some(filled)
              /\ fetches' = [f \in Families |-> Pending]
              /\ net' = [net EXCEPT !.fetches = @ + 2]
              /\ phase' = "fetch"
              /\ UNCHANGED response
         ELSE /\ result' = Some([filled EXCEPT !.error = Some(<<"Port 80 is closed">>)])
              /\ response' = Some(JsonResponse(200, result'[1]))
              /\ phase' = "returned"
              /\ UNCHANGED <<fetches, net>>
    /\ UNCHANGED <<req, hostname, dns, ports, pvars>>

\* portCheck filled; the two fetches issued
AfterPorts ==
    /\ phase = "ports"
    /\ \A k \in Families \X PortNames : ports[k].st = "done"
    /\ result' = Some([result[1] EXCEPT !.portCheck =
                         [http |-> PortResult(ports[<<"ipv4", "http">>].val[1],
                                              ports[<<"ipv6", "http">>].val[1]),
                          https |-> PortResult(ports[<<"ipv4", "https">>].val[1],
                                               ports[<<"ipv6", "https">>].val[1])]])
    /\ fetches' = [f \in Families |-> Pending]
    /\ net' = [net EXCEPT !.fetches = @ + 2]
    /\ phase' = "fetch"
    /\ UNCHANGED <<req, hostname, dns, ports, response, pvars>>

\* one of the two fetchViaIP calls settles
FetchChoices(fam) ==
    FetchOutcomes[dns[fam].val[1][1]][hostname[1]][req[1].followRedirects]

\* A call whose chunk-decoding loop never ends by itself keeps appending to
\* `body`: the run ends at the engine's string-length limit, a RangeError that
\* fetchViaIP's catch turns into a string, or at its heap limit, which ends
\* the process before the handler has answered.
FetchViaIP(fam) ==
    /\ phase = "fetch"
    /\ fetches[fam].st = "pending"
    /\ \E r \in FetchChoices(fam) :
         IF r.settled
         THEN /\ fetches' = [fetches EXCEPT ![fam] = Done(r)]
              /\ UNCHANGED phase
         ELSE \/ /\ fetches' = [fetches EXCEPT ![fam] =
                       Done(FetchCatch(<<"Invalid string length">>,
                                       r.requests, r.lookups))]
                 /\ UNCHANGED phase
              \/ /\ phase' = "aborted"
                 /\ UNCHANGED fetches
    /\ UNCHANGED <<req, hostname, dns, ports, result, response, net, pvars>>

\* the verdict returned as soon as one fetch has failed, its sibling in flight
AfterFetch_OnFirstFailure ==
    /\ phase = "fetch"
    /\ \E f \in Families : fetches[f].st = "done" /\ fetches[f].val[1].isString
    /\ result' = Some([result[1] EXCEPT !.error = Some(<<"Could not fetch content">>)])
    /\ response' = Some(JsonResponse(200, result'[1]))
    /\ phase' = "returned"
    /\ UNCHANGED <<req, hostname, dns, ports, fetches, net, pvars>>

\* both fetches settled: the verdict completed and returned
AfterFetch ==
    /\ phase = "fetch"
    /\ \A f \in Families : fetches[f].st = "done"
    /\ \E r4 \in {fetches["ipv4"].val[1]}, r6 \in {fetches["ipv6"].val[1]} :
         IF r4.rejected \/ r6.rejected
         THEN /\ response' = Some(Rejection)
              /\ UNCHANGED result
         ELSE /\ result' = Some(IF ~r4.isString /\ ~r6.isString
                                THEN Scored(result[1], r4, r6)
                                ELSE FetchFailed(result[1], r4, r6))
              /\ response' = Some(JsonResponse(200, result'[1]))
    /\ phase' = "returned"
    /\ UNCHANGED <<req, hostname, dns, ports, fetches, net, pvars>>

Next ==
    \/ \E url \in UrlParams, followRedirects \in BOOLEAN : Get(url, followRedirects)
    \/ \E fam \in Families, outcome \in DnsOutcomes : ResolveDns(fam, outcome)
    \/ AfterDns
    \/ \E fam \in Families, p \in PortNames, connected \in BOOLEAN :
          CheckPort(fam, p, connected)
    \/ AfterPorts
    \/ \E fam \in Families : FetchViaIP(fam)
    \/ AfterFetch

Spec == Init /\ [][Next]_vars

(***************************************************************************)
(* The scorer exercised on its own: every pair of strings of at most       *)
(* MaxStrLen code units, scored in both argument orders the way the        *)
(* handler scores (ratio, similarityPercent, pass).                        *)
(***************************************************************************)
ScoreAlphabet == {"a", "b", "HI", "LO"}
ScoreStrings == AllStrings(ScoreAlphabet, MaxStrLen)

ScoreOf(a, b) ==
    LET ratio == sequenceMatcherQuickRatio(a, b)
    IN  [ratio |-> ratio,
         similarityPercent |-> SimilarityPercent(ratio),
         pass |-> ContentPass(ratio)]

InitScore ==
    /\ phase = "score"
    /\ HandlerIdle
    /\ argA \in ScoreStrings
    /\ argB \in ScoreStrings
    /\ out = EmptyOut

ScoreForward ==
    /\ phase = "score"
    /\ out.fwd = None
    /\ out' = [out EXCEPT !.fwd = Some(ScoreOf(argA, argB))]
    /\ UNCHANGED <<hvars, argA, argB>>

ScoreReverse ==
    /\ phase = "score"
    /\ out.rev = None
    /\ out' = [out EXCEPT !.rev = Some(ScoreOf(argB, argA))]
    /\ UNCHANGED <<hvars, argA, argB>>

NextScore == ScoreForward \/ ScoreReverse

SpecScore == InitScore /\ [][NextScore]_vars

(***************************************************************************)
(* The handler variant kept in routes/index.tsx: the part that runs once   *)
(* both of its fetches have settled.  Its fetch gives a response or null;  *)
(* similarity is computed line by line on bodies passed through            *)
(* stripNonces, and kept in tenths of a percent like similarityPercent.    *)
(***************************************************************************)
WordChars == AsciiAlpha \cup AsciiDigit \cup {"_"}
LowerHexChars == Range(HexDigits)

\* s.replace(/nonce=Q[^Q]*Q/g, "nonce=QQ") from position i on, Q a quote character
NonceQuotedAt(s, q, k) ==
    /\ k + Len(NonceAttr) <= Len(s)
    /\ SubSeq(s, k, k + Len(NonceAttr) - 1) = NonceAttr
    /\ s[k + Len(NonceAttr)] = q
    /\ IndexFrom(s, {q}, k + Len(NonceAttr) + 1) <= Len(s)

RECURSIVE ReplaceQuotedNonce(_, _, _)
ReplaceQuotedNonce(s, q, i) ==
    Let({k \in i..Len(s) : NonceQuotedAt(s, q, k)}, LAMBDA at :
        IF at = {} THEN SubSeq(s, i, Len(s))
        ELSE Let(Least(at), LAMBDA k :
                 SubSeq(s, i, k - 1) \o NonceAttr \o <<q, q>>
                 \o ReplaceQuotedNonce(
                      s, q, IndexFrom(s, {q}, k + Len(NonceAttr) + 1) + 1)))

\* the last position of the run of `chars` that starts at k
RunEnd(s, chars, k) == SkipWhile(s, chars, k) - 1

\* a run of at least minLen `chars` starts at k; wholeWord: with \b on both sides
RunAt(s, chars, minLen, wholeWord, k) ==
    /\ s[k] \in chars
    /\ RunEnd(s, chars, k) - k + 1 >= minLen
    /\ wholeWord =>
         /\ k = 1 \/ s[k - 1] \notin WordChars
         /\ RunEnd(s, chars, k) = Len(s) \/ s[RunEnd(s, chars, k) + 1] \notin WordChars

\* s.replace(/\b[0-9a-f]{8,}\b/g, "HASH") and s.replace(/\d{10,}/g, "TIMESTAMP")
RECURSIVE ReplaceRuns(_, _, _, _, _, _)
ReplaceRuns(s, i, chars, minLen, wholeWord, replacement) ==
    Let({k \in i..Len(s) : RunAt(s, chars, minLen, wholeWord, k)}, LAMBDA at :
        IF at = {} THEN SubSeq(s, i, Len(s))
        ELSE Let(Least(at), LAMBDA k :
                 SubSeq(s, i, k - 1) \o replacement
                 \o ReplaceRuns(s, RunEnd(s, chars, k) + 1,
                                chars, minLen, wholeWord, replacement)))

HashText == <<"H", "A", "S", "H">>
TimestampText == <<"T", "I", "M", "E", "S", "T", "A", "M", "P">>
HashMinLen == 8
TimestampMinLen == 10

stripNonces(html) ==
    Let(ReplaceQuotedNonce(html, "\"", 1), LAMBDA s1 :
    Let(ReplaceQuotedNonce(s1, "'", 1), LAMBDA s2 :
    Let(ReplaceRuns(s2, 1, LowerHexChars, HashMinLen, TRUE, HashText), LAMBDA s3 :
        ReplaceRuns(s3, 1, AsciiDigit, TimestampMinLen, FALSE, TimestampText))))

\* s.split("\n")
RECURSIVE SplitLines(_)
SplitLines(s) ==
    Let(IndexFrom(s, {"\n"}, 1), LAMBDA n :
        IF n > Len(s) THEN <<s>>
        ELSE <<SubSeq(s, 1, n - 1)>> \o SplitLines(SubSeq(s, n + 1, Len(s))))

computeSimilarity(a, b) ==
    IF a = b THEN 1000
    ELSE IF Len(a) = 0 /\ Len(b) = 0 THEN 1000
    ELSE IF Len(a) = 0 \/ Len(b) = 0 THEN 0
    ELSE
      Let(SplitLines(a), LAMBDA aLines :
      Let(SplitLines(b), LAMBDA bLines :
      Let(Max(Len(aLines), Len(bLines)), LAMBDA maxLen :
        IF maxLen = 0 THEN 1000
        ELSE
          Let(Cardinality({i \in 1..Min(Len(aLines), Len(bLines)) :
                              aLines[i] = bLines[i]}),
              LAMBDA matching :
                SimilarityPercent([num |-> matching, den |-> maxLen])))))

VariantPassPercent == 90

\* the variant's TestResult once the four probes are in
VariantResult(url, host, ipv4, ipv6, probes) ==
    [url |-> url,
     hostname |-> host,
     ipv4Address |-> ipv4,
     ipv6Address |-> ipv6,
     portCheck |->
        [http |-> PortResult(probes[<<"ipv4", "http">>].val[1],
                             probes[<<"ipv6", "http">>].val[1]),
         https |-> PortResult(probes[<<"ipv4", "https">>].val[1],
                              probes[<<"ipv6", "https">>].val[1])],
     headerComparison |->
        [ipv4StatusCode |-> None, ipv6StatusCode |-> None, statusEqual |-> FALSE,
         headerDiffs |-> <<>>],
     contentComparison |-> [similarityPercent |-> None, pass |-> FALSE],
     followedRedirects |-> [ipv4 |-> <<>>, ipv6 |-> <<>>],
     overallPass |-> FALSE,
     error |-> None]

VariantOverallPass(r) ==
    /\ r.portCheck.http.equal
    /\ r.portCheck.https.equal
    /\ r.headerComparison.statusEqual
    /\ r.headerComparison.headerDiffs = <<>>
    /\ r.contentComparison.pass

\* the branch `if (resp4 && resp6)` of the variant
VariantScored(r, resp4, resp6) ==
    Let(computeSimilarity(stripNonces(resp4.body), stripNonces(resp6.body)),
        LAMBDA similarity :
    Let([r EXCEPT
           !.headerComparison =
              [ipv4StatusCode |-> Some(resp4.status),
               ipv6StatusCode |-> Some(resp6.status),
               statusEqual |-> (resp4.status = resp6.status),
               headerDiffs |-> HeaderDiffLoop(COMPARE_HEADERS,
                                              resp4.headers, resp6.headers)],
           !.contentComparison =
              [similarityPercent |-> Some(similarity),
               pass |-> (similarity >= 10 * VariantPassPercent)],
           !.followedRedirects =
              [ipv4 |-> resp4.redirectChain, ipv6 |-> resp6.redirectChain]],
        LAMBDA filled : [filled EXCEPT !.overallPass = VariantOverallPass(filled)]))

\* its else branch; resp4 and resp6 are optional responses
VariantFetchFailed(r, resp4, resp6) ==
    [r EXCEPT
       !.error = Some(<<"Could not fetch content: IPv4 ",
                        IF resp4 # None THEN "OK" ELSE "failed", ", IPv6 ",
                        IF resp6 # None THEN "OK" ELSE "failed">>)]

\* what the variant's fetchViaIP may resolve to: null, or a response
ServerName == COMPARE_HEADERS[2]
VariantHeaders ==
    {<<>>, HeadersAppend(<<>>, ServerName, <<"x">>),
     HeadersAppend(<<>>, ServerName, <<"y">>)}
BodyLines == <<"a", "\n", "b">>
BodyLinesOther == <<"a", "\n", "c">>
BodyNonceX ==
    <<"n", "o", "n", "c", "e", "=", "\"", "x", "\"", " ",
      "d", "e", "a", "d", "b", "e", "e", "f", " ",
      "t", "1", "2", "3", "4", "5", "6", "7", "8", "9", "0">>
BodyNonceY ==
    <<"n", "o", "n", "c", "e", "=", "\"", "y", "\"", " ",
      "c", "a", "f", "e", "b", "a", "b", "e", "0", " ",
      "t", "9", "8", "7", "6", "5", "4", "3", "2", "1", "0", "0">>
VariantBodies ==
    {BodyEmpty, BodyLines, BodyLinesOther, BodyNonceX, BodyNonceY}
VariantResponses ==
    {None} \cup
    {Some([status |-> st, headers |-> h, body |-> b, redirectChain |-> <<>>]) :
        st \in {200, 404}, h \in VariantHeaders, b \in VariantBodies}

InitVariant ==
    /\ phase = "fetch"
    /\ req = Some([url |-> Some(UrlBare), followRedirects |-> FALSE])
    /\ hostname = Some(HostA)
    /\ dns = [f \in Families |-> Done(Some(IF f = "ipv4" THEN V4a ELSE V6a))]
    /\ ports \in [Families \X PortNames -> {Done(TRUE), Done(FALSE)}]
    /\ fetches = [f \in Families |-> Pending]
    /\ result = Some(VariantResult(UrlBare, HostA, Some(V4a), Some(V6a), ports))
    /\ response = None
    /\ net = [lookups |-> 2, probes |-> 4, fetches |-> 2]
    /\ argA = <<>>
    /\ argB = <<>>
    /\ out = EmptyOut

\* one of the variant's two fetchViaIP calls settles
VariantFetchViaIP(fam, resp) ==
    /\ phase = "fetch"
    /\ fetches[fam].st = "pending"
    /\ fetches' = [fetches EXCEPT ![fam] = Done(resp)]
    /\ UNCHANGED <<phase, req, hostname, dns, ports, result, response, net, pvars>>

\* both settled: the variant's verdict completed and returned
VariantAfterFetch ==
    /\ phase = "fetch"
    /\ \A f \in Families : fetches[f].st = "done"
    /\ \E resp4 \in {fetches["ipv4"].val[1]}, resp6 \in {fetches["ipv6"].val[1]} :
         result' = Some(IF resp4 # None /\ resp6 # None
                        THEN VariantScored(result[1], resp4[1], resp6[1])
                        ELSE VariantFetchFailed(result[1], resp4, resp6))
    /\ response' = Some(JsonResponse(200, result'[1]))
    /\ phase' = "returned"
    /\ UNCHANGED <<req, hostname, dns, ports, fetches, net, pvars>>

NextVariant ==
    \/ \E fam \in Families, resp \in VariantResponses : VariantFetchViaIP(fam, resp)
    \/ VariantAfterFetch

SpecVariant == InitVariant /\ [][NextVariant]_vars

(***************************************************************************)
(* fetchViaIP exercised on its own: one call, for each start address,      *)
(* hostname and followRedirects, under each script of the network: up to   *)
(* MaxHops redirects of any kind before the final response, and runs of    *)
(* nine to twelve redirects.                                               *)
(***************************************************************************)
MaxHops == 2
LongestRun == 12

\* Location values: an absolute one with a query, one with another scheme
\* and a port, and a relative one that begins with the letters "http"
LineLocQuery ==
    <<"l", "o", "c", "a", "t", "i", "o", "n", ":", " ", "h", "t", "t",
      "p", ":", "/", "/", "a", ".", "i", "o", "/", "r", "?", "x">>
LineLocTlsPort ==
    <<"l", "o", "c", "a", "t", "i", "o", "n", ":", " ", "h", "t", "t",
      "p", "s", ":", "/", "/", "b", ".", "i", "o", ":", "8", "4", "4", "3",
      "/", "s">>
LineLocHttpWord ==
    <<"l", "o", "c", "a", "t", "i", "o", "n", ":", " ", "h", "t", "t",
      "p", ".", "h", "t", "m", "l">>

WireRedirectNoLocation == WireResponse(302, <<LineServerX>>, BodyEmpty)
RedirectWiresAll ==
    RedirectWires
    \cup {WireRedirectNoLocation}
    \cup {WireResponse(301, <<l>>, BodyEmpty) :
            l \in {LineLocSameHost, LineLocQuery, LineLocTlsPort, LineLocHttpWord}}

\* n redirects to a relative Location, then the wire `last`
RunThen(n, last) == [k \in 1..(n + 1) |-> IF k <= n THEN WireLoop ELSE last]

\* responses rawHttpGet cannot parse: no "\r\n\r\n" in the text, or a first
\* line that is no status line
UnparseableWires == {WireNoBoundary, WireBadStatus(LineNoColon)}

FetchScripts ==
    Scripts
    \cup {[hops |-> h \o <<WireOK>>, dns |-> d] :
            h \in AllStrings(RedirectWiresAll, MaxHops),
            d \in {"one", "empty", "throw"}}
    \cup {[hops |-> RunThen(n, last), dns |-> d] :
            n \in 9..LongestRun,
            last \in RedirectWiresAll \cup {WireOK},
            d \in {"one", "empty"}}
    \cup {[hops |-> h \o <<w, WireOK>>, dns |-> "one"] :
            h \in AllStrings(RedirectWiresAll, 1),
            w \in UnparseableWires}

FetchOut == [res |-> None]

InitFetch ==
    /\ phase = "fetchViaIP"
    /\ HandlerIdle
    /\ argA \in [ip : FetchIps, host : FetchHosts, followRedirects : BOOLEAN]
    /\ argB \in FetchScripts
    /\ out = FetchOut

\* fetchViaIP(ip, hostname, followRedirects) under the script argB
FetchCall ==
    /\ phase = "fetchViaIP"
    /\ out.res = None
    /\ out' = [out EXCEPT !.res =
                 Some(fetchViaIP(argA.ip, argA.host, argA.followRedirects, argB))]
    /\ UNCHANGED <<hvars, argA, argB>>

NextFetch == FetchCall

SpecFetch == InitFetch /\ [][NextFetch]_vars

(***************************************************************************)
(* rawHttpGet's read loop on its own: the peer decides the size of each    *)
(* read and when the stream ends.                                          *)
(***************************************************************************)
HeaderAllowance == 65536
ReadCap == SIMHASH_MAX_RESPONSE_SIZE + HeaderAllowance

\* value.length of one reader.read()
ReadSizes == {4096, 16384, 65536}

ReadOut == [totalLen |-> 0, chunks |-> 0, done |-> FALSE]

InitRead ==
    /\ phase = "read"
    /\ HandlerIdle
    /\ argA = <<>>
    /\ argB = <<>>
    /\ out = ReadOut

\* one iteration of `while (totalLen < SIMHASH_MAX_RESPONSE_SIZE + 65536)`
\* in which reader.read() gives a value of n bytes
ReaderRead(n) ==
    /\ phase = "read"
    /\ ~out.done
    /\ out.totalLen < ReadCap
    /\ out' = [out EXCEPT !.totalLen = @ + n, !.chunks = @ + 1]
    /\ UNCHANGED <<hvars, argA, argB>>

\* the iteration in which reader.read() gives done: break
ReaderDone ==
    /\ phase = "read"
    /\ ~out.done
    /\ out.totalLen < ReadCap
    /\ out' = [out EXCEPT !.done = TRUE]
    /\ UNCHANGED <<hvars, argA, argB>>

NextRead ==
    \/ \E n \in ReadSizes : ReaderRead(n)
    \/ ReaderDone

SpecRead == InitRead /\ [][NextRead]_vars

(***************************************************************************)
(* The body stage of rawHttpGet on its own, for a response whose           *)
(* Transfer-Encoding is chunked.  The peer sends at most MaxChunks chunks  *)
(* of data, framed as the chunked coding frames them (the size line is the *)
(* data's length in bytes), or that framing damaged in one of a few ways;  *)
(* the body text is what TextDecoder made of the bytes.  "U+E9" stands for *)
(* the one code unit of a character that takes two bytes on the wire.      *)
(***************************************************************************)
MaxChunks == 2

\* bytes of UTF-8 per code unit: a surrogate pair is four bytes
UnitBytes(c) == IF c \in {"U+E9", "HI", "LO"} THEN 2 ELSE 1

RECURSIVE ByteLength(_)
ByteLength(text) ==
    IF text = <<>> THEN 0 ELSE UnitBytes(text[1]) + ByteLength(Tail(text))

RECURSIVE HexText(_)
HexText(n) ==
    IF n < 16 THEN <<HexDigits[n + 1]>>
    ELSE HexText(n \div 16) \o <<HexDigits[(n % 16) + 1]>>

ChunkData ==
    {<<"a">>, <<"a", "b">>, <<"U+E9">>, <<"a", "U+E9", "b">>, <<"HI", "LO">>,
     Rep("x", 26)}
ChunkLists == AllStrings(ChunkData, MaxChunks)

EncodeChunk(sizeLine, data) == sizeLine \o CRLF \o data \o CRLF

RECURSIVE EncodeChunks(_)
EncodeChunks(chunks) ==
    IF chunks = <<>> THEN <<>>
    ELSE EncodeChunk(HexText(ByteLength(chunks[1])), chunks[1])
         \o EncodeChunks(Tail(chunks))

LastChunk == <<"0">> \o CRLF \o CRLF

\* the well-formed chunk sequence with its first size line replaced
WithSizeLine(chunks, line) ==
    IF chunks = <<>> THEN line \o CRLF \o CRLF
    ELSE EncodeChunk(line, chunks[1]) \o EncodeChunks(Tail(chunks)) \o LastChunk

WithoutCRLF(text) == SelectSeq(text, LAMBDA c : c \notin {"\r", "\n"})

Damages == {"none", "nozero", "cut", "nonhex", "oversize", "negative", "nocrlf"}

ChunkedText(chunks, damage) ==
    Let(EncodeChunks(chunks) \o LastChunk, LAMBDA whole :
        CASE damage = "none" -> whole
          [] damage = "nozero" -> EncodeChunks(chunks)
          [] damage = "cut" -> SubSeq(whole, 1, Len(whole) - 6)
          [] damage = "nonhex" -> WithSizeLine(chunks, <<"z", "z">>)
          [] damage = "oversize" -> WithSizeLine(chunks, <<"f", "f">>)
          [] damage = "negative" -> WithSizeLine(chunks, <<"-", "6">>)
          [] damage = "nocrlf" -> WithoutCRLF(whole))

ChunkedHeaders == HeadersAppend(<<>>, TransferEncodingName, Chunked)

ChunkedOut == [res |-> None]

InitChunked ==
    /\ phase = "chunked"
    /\ HandlerIdle
    /\ argA \in [chunks : ChunkLists, damage : Damages]
    /\ argB = ChunkedText(argA.chunks, argA.damage)
    /\ out = ChunkedOut

\* the body stage applied to the text argB
DecodeBody ==
    /\ phase = "chunked"
    /\ out.res = None
    /\ out' = [out EXCEPT !.res = Some(RawBody(ChunkedHeaders, argB))]
    /\ UNCHANGED <<hvars, argA, argB>>

NextChunked == DecodeBody

SpecChunked == InitChunked /\ [][NextChunked]_vars

(***************************************************************************)
(* stripIrrelevantHtml exercised on its own: a body made of at most        *)
(* MaxPieces pieces of markup is normalized once, and the result again.    *)
(***************************************************************************)
PieceText ==
    <<"x", " ", "y">>
PieceScript ==
    <<"<", "s", "c", "r", "i", "p", "t", ">">>
PieceScriptNonce ==
    <<"<", "s", "c", "r", "i", "p", "t", " ", "n", "o", "n", "c", "e", "=",
      "\"", "a", "\"", ">">>
PieceScriptTwoNonces ==
    <<"<", "s", "c", "r", "i", "p", "t", " ", "n", "o", "n", "c", "e", "=",
      "\"", "a", "\"", " ", "n", "o", "n", "c", "e", "=", "\"", "b", "\"",
      ">">>
PieceStyleNonce ==
    <<"<", "S", "T", "Y", "L", "E", " ", "m", "e", "d", "i", "a", "=", "m",
      " ", "n", "o", "n", "c", "e", "=", "'", "c", "'", " ", "i", "d", "=",
      "i", ">">>
PieceViewState ==
    <<"<", "i", "n", "p", "u", "t", " ", "n", "a", "m", "e", "=", "\"",
      "_", "_", "V", "I", "E", "W", "S", "T", "A", "T", "E", "\"", " ",
      "v", "a", "l", "u", "e", "=", "\"", "v", "\"", ">">>
PieceInputOpen ==
    <<"<", "i", "n">>
PieceInputRest ==
    <<"p", "u", "t", " ", "n", "a", "m", "e", "=", "'", "_", "_", "V", "I",
      "E", "W", "S", "T", "A", "T", "E", "'", ">">>
PieceInputText ==
    <<"<", "i", "n", "p", "u", "t", " ", "t", "y", "p", "e", "=", "\"",
      "t", "e", "x", "t", "\"", ">">>
NormalizePieces ==
    {PieceText, PieceScript, PieceScriptNonce, PieceScriptTwoNonces, PieceStyleNonce,
     PieceViewState, PieceInputOpen, PieceInputRest, PieceInputText}

MaxPieces == 3

RECURSIVE Concat(_)
Concat(seqs) == IF seqs = <<>> THEN <<>> ELSE seqs[1] \o Concat(Tail(seqs))

NormalizeBodies == {Concat(ps) : ps \in AllStrings(NormalizePieces, MaxPieces)}

NormalizeOut == [once |-> None, twice |-> None]

InitNormalize ==
    /\ phase = "normalize"
    /\ HandlerIdle
    /\ argA \in NormalizeBodies
    /\ argB = <<>>
    /\ out = NormalizeOut

\* stripIrrelevantHtml(body)
NormalizeOnce ==
    /\ phase = "normalize"
    /\ out.once = None
    /\ out' = [out EXCEPT !.once = Some(stripIrrelevantHtml(argA))]
    /\ UNCHANGED <<hvars, argA, argB>>

\* stripIrrelevantHtml applied to what the first call returned
NormalizeAgain ==
    /\ phase = "normalize"
    /\ out.once # None
    /\ out.twice = None
    /\ out' = [out EXCEPT !.twice = Some(stripIrrelevantHtml(out.once[1]))]
    /\ UNCHANGED <<hvars, argA, argB>>

NextNormalize == NormalizeOnce \/ NormalizeAgain

SpecNormalize == InitNormalize /\ [][NextNormalize]_vars

(***************************************************************************)
(* The normalize-then-score step of the handler on its own, for two bodies *)
(* made from one template of at most MaxNoisePieces pieces, the IPv4 body  *)
(* carrying the value v4 and the IPv6 body the value v6 in every nonce     *)
(* attribute and __VIEWSTATE field.                                        *)
(***************************************************************************)
MaxNoisePieces == 2

NoiseKinds == {"text", "astral", "script", "style", "bare", "viewstate"}
NoiseValues == {<<"a">>, <<"b", "c">>}

NoisePiece(kind, v) ==
    CASE kind = "text" -> PieceText
      [] kind = "astral" -> <<"HI", "LO">>
      [] kind = "script" ->
           <<"<", "s", "c", "r", "i", "p", "t", " ", "n", "o", "n", "c", "e", "=", "\"">> \o v \o <<"\"", ">">>
      [] kind = "style" ->
           <<"<", "s", "t", "y", "l", "e", " ", "i", "d", "=", "i", " ", "n", "o", "n", "c", "e", "=", "'">> \o v \o <<"'", ">">>
      [] kind = "bare" ->
           <<"<", "s", "c", "r", "i", "p", "t", " ", "n", "o", "n", "c", "e", "=">> \o v \o <<">">>
      [] kind = "viewstate" ->
           <<"<", "i", "n", "p", "u", "t", " ", "t", "y", "p", "e", "=", "\"", "h", "i", "d", "d", "e", "n", "\"", " ", "n", "a", "m", "e", "=", "\"", "_", "_", "V", "I", "E", "W", "S", "T", "A", "T", "E", "\"", " ", "v", "a", "l", "u", "e", "=", "\"">> \o v \o <<"\"", ">">>

NoiseBody(template, v) ==
    Concat([i \in 1..Len(template) |-> NoisePiece(template[i], v)])

NoiseOut == [res |-> None]

InitNoise ==
    /\ phase = "compare"
    /\ HandlerIdle
    /\ argA \in [template : AllStrings(NoiseKinds, MaxNoisePieces),
                 v4 : NoiseValues, v6 : NoiseValues]
    /\ argB = <<NoiseBody(argA.template, argA.v4), NoiseBody(argA.template, argA.v6)>>
    /\ out = NoiseOut

\* html4, html6 and the score, as the handler computes them from the bodies
NormalizeAndScore ==
    /\ phase = "compare"
    /\ out.res = None
    /\ \E html4 \in {ScorerInput(argB[1])}, html6 \in {ScorerInput(argB[2])} :
         out' = [out EXCEPT !.res = Some([html4 |-> html4, html6 |-> html6,
                                          score |-> ScoreOf(html4, html6)])]
    /\ UNCHANGED <<hvars, argA, argB>>

NextNoise == NormalizeAndScore

SpecNoise == InitNoise /\ [][NextNoise]_vars

(***************************************************************************)
(* The scorer's input on its own, for bodies around and beyond the budget: *)
(* a body is a head piece, `fill` filler characters and a tail piece.  The *)
(* handler computes the same expression for each of the two bodies.        *)
(***************************************************************************)
MaxFill == 6

BudgetHeads == {<<>>, PieceText, PieceScriptNonce, PieceViewState, PieceStyleNonce}
BudgetTails == {<<>>, PieceScript, PieceScriptNonce, PieceViewState}

\* short bodies, and bodies that end just below, at and beyond the budget
BudgetShapes ==
    [head : BudgetHeads, fill : 0..MaxFill, tail : BudgetTails]
    \cup {[head |-> <<>>, fill |-> SIMHASH_MAX_RESPONSE_SIZE + 1, tail |-> <<>>],
          [head |-> PieceScriptNonce,
           fill |-> SIMHASH_MAX_RESPONSE_SIZE - Len(PieceScriptNonce) - 3,
           tail |-> PieceScriptNonce],
          [head |-> PieceViewState,
           fill |-> SIMHASH_MAX_RESPONSE_SIZE + 65536,
           tail |-> PieceViewState]}

BudgetBody(shape) == shape.head \o Rep("a", shape.fill) \o shape.tail

BudgetOut == [res |-> None]

InitBudget ==
    /\ phase = "budget"
    /\ HandlerIdle
    /\ argA \in BudgetShapes
    /\ argB = <<>>
    /\ out = BudgetOut

\* the scorer's input computed from the body of shape argA
TruncateAndNormalize ==
    /\ phase = "budget"
    /\ out.res = None
    /\ \E body \in {BudgetBody(argA)} :
         out' = [out EXCEPT !.res =
                   Some([bodyLen |-> Len(body),
                         inputLen |-> Len(ScorerInput(body))])]
    /\ UNCHANGED <<hvars, argA, argB>>

NextBudget == TruncateAndNormalize

SpecBudget == InitBudget /\ [][NextBudget]_vars

(***************************************************************************)
(* The protocol-fallback loop of the earlier handler in api/test.ts: both  *)
(* families are fetched over the first scheme, then over the other one     *)
(* unless both answered.  A response carries the scheme of the attempt     *)
(* that obtained it (`scheme`, a history field the program does not keep). *)
(***************************************************************************)
FallbackProtocols == {"http", "https"}
FallbackStatuses == {200, 404}

\* protocol === "http" ? ["http", "https"] : ["https", "http"]
protosToTry(protocol) ==
    IF protocol = "http" THEN <<"http", "https">> ELSE <<"https", "http">>

\* what one fetchViaIP call of the loop resolves to: null or a response
FallbackResponses(proto) ==
    {None} \cup {Some([status |-> s, scheme |-> proto]) : s \in FallbackStatuses}

FallbackOut ==
    [i |-> 1, r |-> [f \in Families |-> Pending],
     resp4 |-> None, resp6 |-> None, res |-> None]

InitFallback ==
    /\ phase = "fallback"
    /\ HandlerIdle
    /\ argA \in [protocol : FallbackProtocols]
    /\ argB = <<>>
    /\ out = FallbackOut

\* one of the two fetchViaIP calls of the current attempt settles
FallbackFetchViaIP(fam, r) ==
    /\ phase = "fallback"
    /\ out.i <= Len(protosToTry(argA.protocol))
    /\ out.r[fam].st = "pending"
    /\ r \in FallbackResponses(protosToTry(argA.protocol)[out.i])
    /\ out' = [out EXCEPT !.r[fam] = Done(r)]
    /\ UNCHANGED <<hvars, argA, argB>>

\* the body of the loop after `await Promise.all([...])`
FallbackAttemptDone ==
    /\ phase = "fallback"
    /\ out.i <= Len(protosToTry(argA.protocol))
    /\ \A f \in Families : out.r[f].st = "done"
    /\ \E r4 \in {out.r["ipv4"].val[1]}, r6 \in {out.r["ipv6"].val[1]} :
         out' = IF r4 # None /\ r6 # None
                THEN [out EXCEPT !.resp4 = r4, !.resp6 = r6,
                                 !.i = Len(protosToTry(argA.protocol)) + 1]
                ELSE [out EXCEPT
                        !.resp4 = IF out.resp4 = None /\ r4 # None
                                  THEN r4 ELSE out.resp4,
                        !.resp6 = IF out.resp6 = None /\ r6 # None
                                  THEN r6 ELSE out.resp6,
                        !.i = out.i + 1,
                        !.r = [f \in Families |-> Pending]]
    /\ UNCHANGED <<hvars, argA, argB>>

\* after the loop: `if (resp4 && resp6)` compares, else the error verdict
FallbackAfterLoop ==
    /\ phase = "fallback"
    /\ out.i > Len(protosToTry(argA.protocol))
    /\ out.res = None
    /\ out' = [out EXCEPT !.res =
                 Some([compared |-> (out.resp4 # None /\ out.resp6 # None),
                       statusEqual |->
                          /\ out.resp4 # None /\ out.resp6 # None
                          /\ out.resp4[1].status = out.resp6[1].status])]
    /\ UNCHANGED <<hvars, argA, argB>>

NextFallback ==
    \/ \E fam \in Families, r \in FallbackResponses("http")
                                  \cup FallbackResponses("https") :
            FallbackFetchViaIP(fam, r)
    \/ FallbackAttemptDone
    \/ FallbackAfterLoop

SpecFallback == InitFallback /\ [][NextFallback]_vars

(***************************************************************************)
(* The UI island (islands/IPv6Test.tsx): its signals, the timers set by    *)
(* the hash handler and the requests of runTest still in flight.  A        *)
(* response is identified by the position of its test in the order the     *)
(* tests were started.                                                     *)
(***************************************************************************)
MaxTests == 2

IslandUrls == {<<>>, UrlBare, UrlHttp, UrlSpace}
IslandHashes == {UrlBare, UrlHttp}
ResponseKinds == {"verdict", "error", "throw"}

\* if (!input.trim()) return false; try { new URL(...); return true }
\* catch { return false }
isValidUrl(input) ==
    IF Trim(input) = <<>> THEN FALSE ELSE ParseURL(UrlToParse(input)).ok

IslandOut ==
    [url |-> <<>>, followRedirects |-> FALSE, loading |-> FALSE,
     result |-> None, error |-> None,
     showHeaders |-> FALSE, expandedDiffs |-> FALSE,
     timers |-> {}, tests |-> <<>>]

InitIsland ==
    /\ phase = "island"
    /\ HandlerIdle
    /\ argA = <<>>
    /\ argB = <<>>
    /\ out = IslandOut

\* runTest up to its `await fetch(...)`, from the signals in `o`
runTest(o) ==
    IF Trim(o.url) = <<>> THEN o
    ELSE [o EXCEPT !.loading = TRUE, !.result = None, !.error = None,
                   !.showHeaders = FALSE, !.expandedDiffs = FALSE,
                   !.tests = Append(o.tests,
                                [url |-> Trim(o.url),
                                 followRedirects |-> o.followRedirects,
                                 st |-> "inflight"])]

\* room for another test within the bound
MayStart(o) == Trim(o.url) = <<>> \/ Len(o.tests) < MaxTests

\* onInput of the text field
Input(u) ==
    /\ phase = "island"
    /\ out.url # u
    /\ out' = [out EXCEPT !.url = u]
    /\ UNCHANGED <<hvars, argA, argB>>

\* onChange of the check box
ToggleFollowRedirects ==
    /\ phase = "island"
    /\ out' = [out EXCEPT !.followRedirects = ~out.followRedirects]
    /\ UNCHANGED <<hvars, argA, argB>>

\* onClick of the button, disabled while loading or for an invalid url
ClickRun ==
    /\ phase = "island"
    /\ ~(out.loading \/ ~isValidUrl(out.url))
    /\ MayStart(out)
    /\ out' = runTest(out)
    /\ UNCHANGED <<hvars, argA, argB>>

\* onKeyDown with e.key === "Enter"
PressEnter ==
    /\ phase = "island"
    /\ MayStart(out)
    /\ out' = runTest(out)
    /\ UNCHANGED <<hvars, argA, argB>>

\* handleHash on a hashchange to `hash`: the url set, the timer started
HashChange(hash) ==
    /\ phase = "island"
    /\ Trim(hash) # <<>>
    /\ out' = [out EXCEPT !.url = Trim(hash),
                          !.timers = out.timers \cup {Trim(hash)}]
    /\ UNCHANGED <<hvars, argA, argB>>

\* the callback of setTimeout(..., 0): if (mounted && url.value === hash)
HashTimer(hash) ==
    /\ phase = "island"
    /\ hash \in out.timers
    /\ out.url = hash => MayStart(out)
    /\ \E o \in {[out EXCEPT !.timers = out.timers \ {hash}]} :
         out' = IF o.url = hash THEN runTest(o) ELSE o
    /\ UNCHANGED <<hvars, argA, argB>>

\* the rest of runTest for test i once its request settles: the response
\* stored in result or in error, loading cleared in `finally`
RequestSettles(i, kind) ==
    /\ phase = "island"
    /\ i \in 1..Len(out.tests)
    /\ out.tests[i].st = "inflight"
    /\ out' = [out EXCEPT
                 !.tests[i].st = "done",
                 !.result = IF kind = "verdict"
                            THEN Some([test |-> i, kind |-> kind]) ELSE @,
                 !.error = IF kind # "verdict"
                           THEN Some([test |-> i, kind |-> kind]) ELSE @,
                 !.loading = FALSE]
    /\ UNCHANGED <<hvars, argA, argB>>

\* the two display toggles, rendered with a result
ToggleShowHeaders ==
    /\ phase = "island"
    /\ out.result # None
    /\ out' = [out EXCEPT !.showHeaders = ~out.showHeaders]
    /\ UNCHANGED <<hvars, argA, argB>>

ToggleExpandedDiffs ==
    /\ phase = "island"
    /\ out.result # None
    /\ out' = [out EXCEPT !.expandedDiffs = ~out.expandedDiffs]
    /\ UNCHANGED <<hvars, argA, argB>>

NextIsland ==
    \/ \E u \in IslandUrls : Input(u)
    \/ ToggleFollowRedirects
    \/ ClickRun
    \/ PressEnter
    \/ \E hash \in IslandHashes : HashChange(hash)
    \/ \E hash \in IslandHashes : HashTimer(hash)
    \/ \E i \in 1..MaxTests, kind \in ResponseKinds : RequestSettles(i, kind)
    \/ ToggleShowHeaders
    \/ ToggleExpandedDiffs

SpecIsland == InitIsland /\ [][NextIsland]_vars

\* every test started has its response
AllSettled == \A i \in 1..Len(out.tests) : out.tests[i].st = "done"

\* the tests whose response is on display, as result or as error
Displayed ==
    {out.result[k].test : k \in 1..Len(out.result)}
    \cup {out.error[k].test : k \in 1..Len(out.error)}

(***************************************************************************)
(* The island's rendering of a verdict r (`{r && (...)}`): the objects of  *)
(* r whose properties the JSX reads, each named by the property names that *)
(* lead to it.  Reading a property of a missing object throws a TypeError. *)
(***************************************************************************)
RenderObjects(r) ==
    {<<"connectedAddresses">>, <<"headerComparison">>, <<"contentComparison">>,
     <<"followedRedirects">>, <<"followedRedirects", "ipv4">>,
     <<"followedRedirects", "ipv6">>}
    \cup (IF r.ipv4Address # None /\ r.ipv6Address # None
          THEN {<<"portCheck">>, <<"portCheck", "http">>, <<"portCheck", "https">>}
          ELSE {})

\* the object at `path` exists in r
Present(r, path) ==
    /\ path[1] \in DOMAIN r
    /\ Len(path) = 2 => path[2] \in DOMAIN r[path[1]]

\* rendering r reads a property of undefined
RenderThrows(r) == \E path \in RenderObjects(r) : ~Present(r, path)

(***************************************************************************)
(* Properties of the handler and of its components.                        *)
(***************************************************************************)
Returned == phase = "returned" /\ response # None

\* the handler has returned a verdict document (Response.json(result))
ReturnedVerdict ==
    /\ Returned
    /\ response[1].kind = "json"
    /\ response[1].status = 200

Verdict == response[1].body

\* the verdict of a run in which both fetches gave a response
BothFetched ==
    /\ ReturnedVerdict
    /\ Verdict.headerComparison.ipv4StatusCode # None
    /\ Verdict.headerComparison.ipv6StatusCode # None

\* C1: in every verdict document the GET handler returns, for each protocol
\* p of http and https, portCheck.p.equal is true exactly when
\* portCheck.p.ipv4 equals portCheck.p.ipv6.
C1_PortEqualIffSameReachability ==
    ReturnedVerdict =>
        \A p \in PortNames :
            Verdict.portCheck[p].equal
                = (Verdict.portCheck[p].ipv4 = Verdict.portCheck[p].ipv6)

\* C2: whenever both fetches succeed, overallPass equals http.equal AND
\* https.equal AND statusEqual AND contentComparison.pass (so header
\* differences alone never fail the verdict), and differing status codes
\* give statusEqual = false and overallPass = false.
C2_OverallPassIsTheFourChecks ==
    BothFetched =>
        /\ Verdict.overallPass
             = (/\ Verdict.portCheck.http.equal
                /\ Verdict.portCheck.https.equal
                /\ Verdict.headerComparison.statusEqual
                /\ Verdict.contentComparison.pass)
        /\ Verdict.headerComparison.ipv4StatusCode
             # Verdict.headerComparison.ipv6StatusCode
           => /\ ~Verdict.headerComparison.statusEqual
              /\ ~Verdict.overallPass

\* C3: in every verdict with a non-null similarityPercent, pass is true
\* exactly when 100 - similarityPercent <= 10 (similarityPercent as
\* reported, rounded to one decimal; here in tenths).
C3_PassIffReportedDistanceAtMostTen ==
    (ReturnedVerdict /\ Verdict.contentComparison.similarityPercent # None) =>
        Verdict.contentComparison.pass
            = (1000 - Verdict.contentComparison.similarityPercent[1]
                 <= 10 * SIMHASH_MAX_DISTANCE)

\* what the handler compares for a family: the fetched body, cut and normalized
NormalizedBody(fam) ==
    stripIrrelevantHtml(
        Substring(fetches[fam].val[1].body, 0, SIMHASH_MAX_RESPONSE_SIZE))

\* C4: when both families resolve, all four probes succeed and both fetches
\* return status 200 with identical normalized bodies, the verdict has
\* overallPass = true and similarityPercent = 100, whatever the body.
C4_IdenticalBodiesPassAtHundred ==
    (/\ BothFetched
     /\ \A p \in PortNames : Verdict.portCheck[p].ipv4 /\ Verdict.portCheck[p].ipv6
     /\ Verdict.headerComparison.ipv4StatusCode = Some(200)
     /\ Verdict.headerComparison.ipv6StatusCode = Some(200)
     /\ NormalizedBody("ipv4") = NormalizedBody("ipv6"))
    => /\ Verdict.overallPass
       /\ Verdict.contentComparison.similarityPercent = Some(1000)

\* both lookups are in and at least one family has no address
FamilyMissing ==
    /\ \A f \in Families : dns[f].st = "done"
    /\ \E f \in Families : dns[f].val[1] = None

\* C5: when DNS yields no address for at least one family, no port probe and
\* no fetch is ever issued, and the handler returns a verdict whose error
\* names what is missing, with the missing address null, overallPass false
\* and portCheck, headerComparison, contentComparison and followedRedirects
\* still at their initial values.
C5_MissingFamilyEndsAfterDns ==
    FamilyMissing =>
        /\ phase \in {"dns", "returned"}
        /\ net.probes = 0
        /\ net.fetches = 0
        /\ \A k \in Families \X PortNames : ports[k].st = "idle"
        /\ \A f \in Families : fetches[f].st = "idle"
        /\ phase = "returned" =>
             /\ ReturnedVerdict
             /\ Verdict.error =
                  Some(IF dns["ipv4"].val[1] = None /\ dns["ipv6"].val[1] = None
                       THEN ErrorNoRecords
                       ELSE IF dns["ipv6"].val[1] = None THEN ErrorNoAAAA
                       ELSE ErrorNoA)
             /\ Verdict.ipv4Address = dns["ipv4"].val[1]
             /\ Verdict.ipv6Address = dns["ipv6"].val[1]
             /\ Verdict.overallPass = FALSE
             /\ \A p \in PortNames :
                  Verdict.portCheck[p] = [ipv4 |-> FALSE, ipv6 |-> FALSE, equal |-> FALSE]
             /\ Verdict.headerComparison.ipv4StatusCode = None
             /\ Verdict.headerComparison.ipv6StatusCode = None
             /\ Verdict.headerComparison.statusEqual = FALSE
             /\ Verdict.headerComparison.headerDiffs = <<>>
             /\ Verdict.contentComparison = [similarityPercent |-> None, pass |-> FALSE]
             /\ Verdict.followedRedirects = [ipv4 |-> <<>>, ipv6 |-> <<>>]

\* an IPv6 address but no IPv4 address: returned after the two lookups alone,
\* with the error that names the A record
C5_Witness_OnlyIPv4Missing ==
    /\ phase = "returned"
    /\ FamilyMissing
    /\ dns["ipv4"].val[1] = None
    /\ dns["ipv6"].val[1] # None
    /\ Verdict.error = Some(ErrorNoA)
    /\ net.lookups = 2

\* the url parameter is missing, empty, or not parseable by new URL
UrlRejected(url) ==
    \/ url = None
    \/ url[1] = <<>>
    \/ ~ParseURL(UrlToParse(url[1])).ok

NoNetworkActivity ==
    /\ net = [lookups |-> 0, probes |-> 0, fetches |-> 0]
    /\ \A f \in Families : dns[f].st = "idle" /\ fetches[f].st = "idle"
    /\ \A k \in Families \X PortNames : ports[k].st = "idle"

\* C6: a request with a missing or empty url, or a url that does not parse,
\* gets a status-400 response with an error field and causes no DNS lookup
\* and no TCP connection; only a url that passes reaches the DNS stage.
C6_BadUrlIs400WithoutNetwork ==
    /\ (req # None /\ UrlRejected(req[1].url)) =>
          /\ Returned
          /\ response[1].kind = "json"
          /\ response[1].status = 400
          /\ response[1].body.error # None
          /\ hostname = None
          /\ NoNetworkActivity
    /\ ~NoNetworkActivity => (req # None /\ ~UrlRejected(req[1].url))

\* a url that new URL refuses has been answered 400 "Invalid URL"
C6_Witness_UnparseableUrl ==
    /\ Returned
    /\ req[1].url = Some(UrlSpace)
    /\ response[1].status = 400
    /\ response[1].body.error = Some(<<"Invalid URL">>)
    /\ NoNetworkActivity

\* the url carries no scheme: no "://" in it
HasNoScheme(url) == IndexOfStr(url, <<":", "/", "/">>, 0) = -1

\* C7: every non-empty url without a scheme is parsed with https://
\* prepended: when https://H is a valid URL the request is not rejected
\* and the hostname of https://H becomes the verdict's hostname, also for
\* an H that begins with the letters "http".
C7_SchemelessUrlGetsHttps ==
    (/\ req # None
     /\ req[1].url # None
     /\ req[1].url[1] # <<>>
     /\ HasNoScheme(req[1].url[1])
     /\ ParseURL(HttpsPrefix \o req[1].url[1]).ok)
    => /\ hostname = Some(ParseURL(HttpsPrefix \o req[1].url[1]).hostname)
       /\ Returned => response[1].status # 400
       /\ ReturnedVerdict =>
            Verdict.hostname = ParseURL(HttpsPrefix \o req[1].url[1]).hostname

\* C8: for a valid url and every network outcome the handler never throws,
\* rejects or dies: it answers with a normal (status 200) verdict document,
\* which carries a non-empty error string whenever no comparison was made.
C8_EveryOutcomeEndsInAVerdict ==
    /\ phase # "aborted"
    /\ response # None => response[1].kind = "json"
    /\ (Returned /\ hostname # None) =>
          /\ ReturnedVerdict
          /\ Verdict.contentComparison.similarityPercent = None =>
                (Verdict.error # None /\ Verdict.error[1] # <<>>)

XCustomName == <<"x", "-", "c", "u", "s", "t", "o", "m">>
ListPosition(name) == CHOOSE k \in 1..Len(COMPARE_HEADERS) : COMPARE_HEADERS[k] = name

\* C9: headerDiffs holds only names of the 8-name comparison list, each at
\* most once and in list order; a listed name is there exactly when its
\* value over IPv4 differs from its value over IPv6 (absent differs from
\* present); a header outside the list is never reported.
C9_HeaderDiffsAreTheListedDifferences ==
    BothFetched =>
        LET diffs == Verdict.headerComparison.headerDiffs
            h4 == fetches["ipv4"].val[1].headers
            h6 == fetches["ipv6"].val[1].headers
        IN  /\ Len(COMPARE_HEADERS) = 8
            /\ \A i \in 1..Len(diffs) : diffs[i].header \in Range(COMPARE_HEADERS)
            /\ \A i, j \in 1..Len(diffs) :
                 i < j => ListPosition(diffs[i].header) < ListPosition(diffs[j].header)
            /\ \A k \in 1..Len(COMPARE_HEADERS) :
                 (\E i \in 1..Len(diffs) : diffs[i].header = COMPARE_HEADERS[k])
                 <=> (HeadersGet(h4, COMPARE_HEADERS[k])
                        # HeadersGet(h6, COMPARE_HEADERS[k]))
            /\ \A i \in 1..Len(diffs) :
                 /\ diffs[i].ipv4Value = HeadersGet(h4, diffs[i].header)
                 /\ diffs[i].ipv6Value = HeadersGet(h6, diffs[i].header)

\* server and x-custom both differ between the families (x-custom present on
\* both sides), cache-control is absent on both: only server is reported
C9_Witness_UnlistedHeaderDiffers ==
    /\ BothFetched
    /\ Len(Verdict.headerComparison.headerDiffs) = 1
    /\ Verdict.headerComparison.headerDiffs[1].header = ServerName
    /\ HeadersGet(fetches["ipv4"].val[1].headers, XCustomName) # None
    /\ HeadersGet(fetches["ipv6"].val[1].headers, XCustomName) # None
    /\ HeadersGet(fetches["ipv4"].val[1].headers, XCustomName)
         # HeadersGet(fetches["ipv6"].val[1].headers, XCustomName)

\* C10: the similarity score is symmetric: for all strings a and b,
\* score(a, b) = score(b, a).
C10_ScoreIsSymmetric ==
    (out.fwd # None /\ out.rev # None) => out.fwd = out.rev

\* both orders scored for strings of different lengths with common characters
C10_Witness_UnequalLengths ==
    /\ out.fwd # None
    /\ out.rev # None
    /\ Len(argA) # Len(argB)
    /\ out.fwd[1].ratio.num > 0
    /\ out.fwd[1].similarityPercent < 1000

\* C11: for every non-empty string a, score(a, a) = 100, also when a holds
\* characters encoded as two UTF-16 code units.
C11_SelfScoreIsHundred ==
    (out.fwd # None /\ argA = argB /\ argA # <<>>) =>
        out.fwd[1].similarityPercent = 1000

\* C12: scoring two strings always gives a number, and the empty cases are
\* fixed: score("", "") = 100, and score(a, b) = 0 when exactly one of a, b
\* is empty.
C12_EmptyCasesAreFixed ==
    /\ out.fwd # None =>
          /\ out.fwd[1].ratio.den > 0
          /\ out.fwd[1].ratio.num >= 0
          /\ (argA = <<>> /\ argB = <<>>) => out.fwd[1].similarityPercent = 1000
          /\ ((argA = <<>>) # (argB = <<>>)) => out.fwd[1].similarityPercent = 0
    /\ (phase = "score" /\ out.fwd = None) => ENABLED ScoreForward

\* both strings empty, scored 100
C12_Witness_BothEmpty ==
    /\ out.fwd # None
    /\ argA = <<>>
    /\ argB = <<>>
    /\ out.fwd[1].similarityPercent = 1000
    /\ out.fwd[1].pass

\* C13: for all strings a and b the sum of per-character minimum counts is
\* at most min(len(a), len(b)), so the ratio is at most 1 and
\* similarityPercent lies between 0 and 100 inclusive.
C13_ScoreWithinZeroAndHundred ==
    out.fwd # None =>
        /\ (argA # <<>> /\ argB # <<>>) =>
              /\ out.fwd[1].ratio.num = 2 * QuickRatioMatches(argA, argB)
              /\ out.fwd[1].ratio.num <= 2 * Min(Len(argA), Len(argB))
        /\ out.fwd[1].ratio.num <= out.fwd[1].ratio.den
        /\ out.fwd[1].similarityPercent >= 0
        /\ out.fwd[1].similarityPercent <= 1000

\* a shorter string all of whose characters are matched: the sum reaches
\* min(len(a), len(b)) while the score stays below 100
C13_Witness_MatchesReachTheMinimum ==
    /\ out.fwd # None
    /\ argA # <<>>
    /\ Len(argA) < Len(argB)
    /\ out.fwd[1].ratio.num = 2 * Len(argA)
    /\ out.fwd[1].similarityPercent > 0
    /\ out.fwd[1].similarityPercent < 1000

\* C14: normalization is idempotent: for every body s,
\* normalize(normalize(s)) = normalize(s), also when one script/style tag
\* carries more than one nonce attribute or when removing a __VIEWSTATE
\* input joins the text around it into a new matching element.
C14_NormalizeIsIdempotent ==
    (out.once # None /\ out.twice # None) => out.twice = out.once

TooManyRedirects == <<"Too many redirects">>
ReResolveFailedPrefix == <<"DNS re-resolve failed for ">>

\* what rawHttpGet makes of a wire outcome is a redirect fetchViaIP would take
IsRedirectWire(wire) ==
    Let(rawHttpGet(<<>>, <<>>, <<>>, wire), LAMBDA resp :
        /\ ~resp.threw
        /\ ~resp.hangs
        /\ resp.status >= 300
        /\ resp.status < 400
        /\ HeadersHas(resp.headers, LocationName))

\* the 11th response of the fetch is a redirect (the ten before it were taken)
EleventhIsRedirect ==
    /\ out.res # None
    /\ argA.followRedirects
    /\ Len(out.res[1].requests) = 11
    /\ IsRedirectWire(HopAt(argB, 10))

\* C15 as stated: with followRedirects set a fetch issues at most 11
\* requests, a successful result has at most 10 redirect chain entries, and
\* if the 11th response is still a redirect the fetch ends with the failure
\* "Too many redirects".
C15_EleventhRedirectIsTooMany ==
    (out.res # None /\ argA.followRedirects) =>
        /\ Len(out.res[1].requests) <= 11
        /\ ~out.res[1].isString => Len(out.res[1].redirectChain) <= 10
        /\ EleventhIsRedirect =>
              (out.res[1].isString /\ out.res[1].str = TooManyRedirects)

\* C15 amended: at most 11 requests, at most 10 chain entries on success,
\* and an 11th response that is a redirect ends the fetch with a failure and
\* no 12th request: "Too many redirects", unless taking that redirect fails
\* by itself (a Location new URL refuses, a re-resolution without address),
\* which ends the fetch with that failure's reason instead.
C15_RedirectBudgetIsTen ==
    (out.res # None /\ argA.followRedirects) =>
        /\ Len(out.res[1].requests) <= 11
        /\ ~out.res[1].isString => Len(out.res[1].redirectChain) <= 10
        /\ EleventhIsRedirect =>
              /\ out.res[1].settled
              /\ out.res[1].isString
              /\ \/ out.res[1].str = TooManyRedirects
                 \/ out.res[1].str = <<"Invalid URL">>
                 \/ StartsWith(out.res[1].str, ReResolveFailedPrefix)
        /\ (out.res[1].isString /\ out.res[1].str = TooManyRedirects) =>
              /\ Len(out.res[1].requests) = 11
              /\ IsRedirectWire(HopAt(argB, 10))

\* eleven requests, each answered by a redirect: "Too many redirects"
C15_Witness_ElevenRedirects ==
    /\ EleventhIsRedirect
    /\ out.res[1].isString
    /\ out.res[1].str = TooManyRedirects

\* the address is of the IPv6 family
IsIPv6(address) == Includes(address, ":")

\* C16: throughout a fetch, after any number of cross-host redirects, every
\* re-resolution asks for the record type of the start address's family, and
\* every address connected to is of the family of the start address.
C16_FamilyIsKeptAcrossRedirects ==
    out.res # None =>
        /\ \A i \in 1..Len(out.res[1].lookups) :
              out.res[1].lookups[i].type
                 = (IF IsIPv6(argA.ip) THEN "AAAA" ELSE "A")
        /\ \A i \in 1..Len(out.res[1].requests) :
              IsIPv6(out.res[1].requests[i].ip) = IsIPv6(argA.ip)

\* an IPv6 fetch that crossed hosts twice and connected to a re-resolved address
C16_Witness_TwoCrossHostRedirects ==
    /\ out.res # None
    /\ IsIPv6(argA.ip)
    /\ Len(out.res[1].lookups) = 2
    /\ Len(out.res[1].requests) = 3
    /\ out.res[1].requests[3].ip # argA.ip
    /\ ~out.res[1].isString

\* the fetch of family f has ended on a re-resolution without address
ReResolveFailed(f) ==
    /\ fetches[f].st = "done"
    /\ fetches[f].val[1].isString
    /\ StartsWith(fetches[f].val[1].str, ReResolveFailedPrefix)

\* the hostname a "DNS re-resolve failed for <host>" failure names
FailedHost(str) == SubSeq(str, Len(ReResolveFailedPrefix) + 1, Len(str))

\* C17: when the IPv4 fetch is redirected to another hostname whose A lookup
\* gives no address, the fetch ends there with the re-resolution failure: the
\* failing lookup is its last step, it is an A lookup of the new hostname, no
\* request is ever sent for that hostname, and the verdict returned reports
\* the failure in debug.ipv4Error.
C17_ReResolveFailureEndsTheFetch ==
    ReResolveFailed("ipv4") =>
        Let(fetches["ipv4"].val[1], LAMBDA r4 :
            /\ r4.settled
            /\ Len(r4.lookups) >= 1
            /\ r4.lookups[Len(r4.lookups)]
                  = [hostname |-> FailedHost(r4.str), type |-> "A"]
            /\ FailedHost(r4.str) # hostname[1]
            /\ \A i \in 1..Len(r4.requests) :
                  r4.requests[i].host # FailedHost(r4.str)
            /\ Returned =>
                  /\ ReturnedVerdict
                  /\ Verdict.debug # None
                  /\ Verdict.debug[1].ipv4Error = Some(r4.str)
                  /\ Verdict.error # None
                  /\ ~Verdict.overallPass)

\* a verdict returned after the IPv4 fetch failed on a re-resolution while
\* the IPv6 fetch got its response
C17_Witness_IPv4ReResolveFailed ==
    /\ ReResolveFailed("ipv4")
    /\ ReturnedVerdict
    /\ ~fetches["ipv6"].val[1].isString
    /\ Verdict.debug[1].ipv4Error = Some(ReResolveFailedPrefix \o HostB)

\* both families resolved, the four probes are over and portCheck is filled
PortsChecked ==
    /\ phase \in {"fetch", "returned"}
    /\ result # None
    /\ \A k \in Families \X PortNames : ports[k].st = "done"

\* the IPv6 connection to port 80 was refused
IPv6HttpRefused == PortsChecked /\ ports[<<"ipv6", "http">>].val[1] = FALSE

\* C18 as stated: when both families resolve and the IPv6 connection to
\* port 80 is refused, portCheck.http.ipv6 is false and portCheck.http.equal
\* is false.
C18_RefusedIPv6MakesHttpUnequal ==
    IPv6HttpRefused =>
        /\ result[1].portCheck.http.ipv6 = FALSE
        /\ result[1].portCheck.http.equal = FALSE
        /\ ReturnedVerdict =>
              /\ Verdict.portCheck.http.ipv6 = FALSE
              /\ Verdict.portCheck.http.equal = FALSE

\* C18 amended: when both families resolve and the IPv6 connection to port 80
\* is refused, portCheck.http.ipv6 is false, and portCheck.http.equal is
\* false exactly when the IPv4 connection to port 80 succeeded (two refused
\* connections compare equal); the https entry is not affected.
C18_RefusedIPv6UnequalWhenIPv4Connects ==
    IPv6HttpRefused =>
        /\ result[1].portCheck.http.ipv6 = FALSE
        /\ result[1].portCheck.http.ipv4 = ports[<<"ipv4", "http">>].val[1]
        /\ result[1].portCheck.http.equal = ~ports[<<"ipv4", "http">>].val[1]
        /\ result[1].portCheck.https
              = PortResult(ports[<<"ipv4", "https">>].val[1],
                           ports[<<"ipv6", "https">>].val[1])
        /\ ReturnedVerdict => Verdict.portCheck = result[1].portCheck

\* a verdict returned after port 80 connected over IPv4 and was refused
\* over IPv6
C18_Witness_OnlyIPv6Refused ==
    /\ IPv6HttpRefused
    /\ ports[<<"ipv4", "http">>].val[1] = TRUE
    /\ ReturnedVerdict
    /\ Verdict.portCheck.http = [ipv4 |-> TRUE, ipv6 |-> FALSE, equal |-> FALSE]

\* the header lines of family f's final response in the order rawHttpGet
\* appended them (names as the Headers object keeps them, in lower case)
AppendedHeaders(f) == fetches[f].val[1].headers

\* C19: the header list reported per family is the list of name/value pairs
\* as parsed from the wire: one entry per header line, duplicates kept as
\* separate entries, in the order the lines arrived.
C19_HeaderListIsWireOrder ==
    BothFetched =>
        /\ Verdict.headerComparison.ipv4Headers = AppendedHeaders("ipv4")
        /\ Verdict.headerComparison.ipv6Headers = AppendedHeaders("ipv6")

\* a verdict returned after the fetch of at least one family failed
SomeFetchFailed ==
    /\ ReturnedVerdict
    /\ \A f \in Families : fetches[f].st = "done"
    /\ \E f \in Families : fetches[f].val[1].isString

\* C20: whenever at least one family's fetch fails, the verdict's debug
\* object carries the failure string of every family whose fetch failed:
\* debug.ipv4Error is present exactly when the IPv4 fetch failed, and
\* debug.ipv6Error exactly when the IPv6 fetch failed, whatever the failure
\* string, the empty message of an exception included.
C20_DebugErrorIffFetchFailed ==
    SomeFetchFailed =>
        /\ Verdict.debug # None
        /\ Verdict.debug[1].ipv4Error
              = (IF fetches["ipv4"].val[1].isString
                 THEN Some(fetches["ipv4"].val[1].str) ELSE None)
        /\ Verdict.debug[1].ipv6Error
              = (IF fetches["ipv6"].val[1].isString
                 THEN Some(fetches["ipv6"].val[1].str) ELSE None)

\* "OK" or "failed", as the fetch of family f ended
OutcomeWord(f) == IF fetches[f].val[1].isString THEN "failed" ELSE "OK"

\* C21: if either family's fetch fails, nothing is normalized, diffed or
\* scored: the verdict's error is "Could not fetch content: IPv4 <w4>, IPv6
\* <w6>" with each word telling how that family's fetch ended, overallPass is
\* false, both status codes and similarityPercent are null, headerDiffs and
\* the header lists are empty and both followedRedirects lists are empty,
\* also for the family whose fetch got a response.
C21_FailedFetchSkipsScoring ==
    SomeFetchFailed =>
        /\ Verdict.error = Some(<<"Could not fetch content: ",
                                  "IPv4 ", OutcomeWord("ipv4"), ", ",
                                  "IPv6 ", OutcomeWord("ipv6")>>)
        /\ ~Verdict.overallPass
        /\ Verdict.headerComparison
              = [ipv4StatusCode |-> None, ipv6StatusCode |-> None,
                 statusEqual |-> FALSE, headerDiffs |-> <<>>,
                 ipv4Headers |-> <<>>, ipv6Headers |-> <<>>]
        /\ Verdict.contentComparison = [similarityPercent |-> None, pass |-> FALSE]
        /\ Verdict.followedRedirects = [ipv4 |-> <<>>, ipv6 |-> <<>>]

\* the IPv4 fetch failed while the IPv6 fetch got a response after following
\* a redirect, with headers that would have been diffed
C21_Witness_SiblingSucceededAfterRedirect ==
    /\ SomeFetchFailed
    /\ fetches["ipv4"].val[1].isString
    /\ ~fetches["ipv6"].val[1].isString
    /\ Len(fetches["ipv6"].val[1].redirectChain) >= 1
    /\ Verdict.followedRedirects.ipv6 = <<>>

\* every operation of a stage has completed
AllDone(slots) == \A k \in DOMAIN slots : slots[k].st = "done"
\* some operation of a stage has been issued
SomeIssued(slots) == \E k \in DOMAIN slots : slots[k].st # "idle"

\* C22: stages are joined before the next begins.  No port probe is issued
\* before both DNS lookups have completed, no fetch before all four probes
\* have completed, and no verdict is returned before every operation issued
\* has completed; while a fetch that has failed waits for its sibling, the
\* handler has answered nothing and the sibling can still settle.
C22_StagesAreJoined ==
    /\ (SomeIssued(ports) \/ net.probes > 0) => AllDone(dns)
    /\ (SomeIssued(fetches) \/ net.fetches > 0) => AllDone(ports)
    /\ Returned =>
          /\ SomeIssued(dns) => AllDone(dns)
          /\ SomeIssued(ports) => AllDone(ports)
          /\ SomeIssued(fetches) => AllDone(fetches)
    /\ \A f \in Families, g \in Families :
          (/\ phase = "fetch"
           /\ fetches[f].st = "done"
           /\ fetches[f].val[1].isString
           /\ fetches[g].st = "pending") =>
              /\ response = None
              /\ ENABLED FetchViaIP(g)

\* the IPv4 fetch has failed and the IPv6 fetch is still in flight
C22_Witness_FailedFetchWaitsForSibling ==
    /\ phase = "fetch"
    /\ fetches["ipv4"].st = "done"
    /\ fetches["ipv4"].val[1].isString
    /\ fetches["ipv6"].st = "pending"
    /\ response = None

\* both lookups have completed and each gave an address
BothResolved == AllDone(dns) /\ \A f \in Families : dns[f].val[1] # None

\* C23: whenever both addresses resolve, both fetches are issued whatever
\* the four probes gave.  Once the probes are over the handler's next step
\* issues the two fetches; it is never past the port stage without having
\* issued both; and a verdict carries an error only when a fetch failed,
\* never because of a closed or unequal port.
C23_FetchesIssuedWhateverThePorts ==
    BothResolved =>
        /\ (phase = "ports" /\ AllDone(ports)) => ENABLED AfterPorts
        /\ phase \in {"fetch", "aborted", "returned"} =>
              /\ net.fetches = 2
              /\ \A f \in Families : fetches[f].st # "idle"
              /\ AllDone(ports)
        /\ ReturnedVerdict =>
              /\ AllDone(fetches)
              /\ (Verdict.error # None)
                    = (\E f \in Families : fetches[f].val[1].isString)

\* a verdict without error after all four probes found the port closed and
\* both fetches got a response
C23_Witness_AllPortsClosedStillFetched ==
    /\ ReturnedVerdict
    /\ AllDone(ports)
    /\ AllDone(fetches)
    /\ \A k \in Families \X PortNames : ports[k].val[1] = FALSE
    /\ \A f \in Families : ~fetches[f].val[1].isString
    /\ net.fetches = 2
    /\ Verdict.error = None

Fetched == out.res[1]

\* the Location value of the response to the fetch's i-th request
LocationAt(i) ==
    HeadersGet(rawHttpGet(<<>>, <<>>, <<>>, HopAt(argB, i - 1)).headers,
               LocationName)[1]

\* an absolute http(s) URL, as opposed to a relative reference
IsAbsolute(location) ==
    \/ StartsWith(location, <<"h", "t", "t", "p", ":", "/", "/">>)
    \/ StartsWith(location, HttpsPrefix)

\* the redirects the fetch followed: request i was answered by a redirect
\* and request i + 1 was sent
Followed == IF out.res = None THEN {} ELSE 1..(Len(Fetched.requests) - 1)

\* the i-th response redirects to another hostname than the one asked
CrossesHost(i) ==
    /\ IsAbsolute(LocationAt(i))
    /\ ParseURL(LocationAt(i)).hostname # Fetched.requests[i].host

\* C24: when a followed redirect's Location is relative, the next request
\* goes to the same address for the same hostname, with the Location as its
\* path; when it is absolute with the hostname of the request it answers,
\* the next request goes to the same address for the same hostname, with the
\* Location's path and query as its path; and no lookup is made for either:
\* the fetch makes no more lookups than it met redirects to another hostname.
C24_SameHostRedirectChangesOnlyThePath ==
    out.res # None =>
        /\ \A i \in Followed :
              /\ ~IsAbsolute(LocationAt(i)) =>
                    Fetched.requests[i + 1]
                       = [Fetched.requests[i] EXCEPT !.path = LocationAt(i)]
              /\ (IsAbsolute(LocationAt(i)) /\ ~CrossesHost(i)) =>
                    Fetched.requests[i + 1]
                       = [Fetched.requests[i] EXCEPT
                             !.path = ParseURL(LocationAt(i)).pathname
                                         \o ParseURL(LocationAt(i)).search]
        /\ Len(Fetched.lookups)
              <= Cardinality({i \in 1..Len(Fetched.requests) :
                                /\ IsRedirectWire(HopAt(argB, i - 1))
                                /\ CrossesHost(i)})

\* a fetch that followed a relative redirect and then an absolute one to the
\* same hostname with a query, without any lookup
C24_Witness_RelativeThenSameHost ==
    /\ out.res # None
    /\ Len(Fetched.requests) = 3
    /\ ~IsAbsolute(LocationAt(1))
    /\ IsAbsolute(LocationAt(2))
    /\ ~CrossesHost(2)
    /\ Fetched.requests[3].path = <<"/", "r", "?", "x">>
    /\ Fetched.lookups = <<>>
    /\ ~Fetched.isString

\* C25: with followRedirects unset a fetch performs exactly one request and
\* no re-resolution, and never ends in "Too many redirects"; a 3xx response
\* with a Location header is its successful result, with that status code,
\* the response's headers and body, and an empty redirect chain.
C25_NoRedirectIsFollowedWhenUnset ==
    (out.res # None /\ ~argA.followRedirects) =>
        /\ Len(Fetched.requests) = 1
        /\ Fetched.requests[1] = RawRequest(argA.ip, argA.host, <<"/">>)
        /\ Fetched.lookups = <<>>
        /\ ~(Fetched.isString /\ Fetched.str = TooManyRedirects)
        /\ IsRedirectWire(HopAt(argB, 0)) =>
              /\ Fetched.settled
              /\ ~Fetched.isString
              /\ Fetched.status = HopAt(argB, 0).status
              /\ HeadersHas(Fetched.headers, LocationName)
              /\ Fetched.redirectChain = <<>>

\* a 301 to another hostname returned as the result, followRedirects unset
C25_Witness_RedirectReturnedAsResult ==
    /\ out.res # None
    /\ ~argA.followRedirects
    /\ IsRedirectWire(HopAt(argB, 0))
    /\ CrossesHost(1)
    /\ Fetched.status = 301
    /\ Fetched.redirectChain = <<>>
    /\ Len(argB.hops) >= 2

\* how many redirects to another hostname the fetch followed before its
\* i-th request
CrossedBefore(i) == Cardinality({j \in 1..(i - 1) : CrossesHost(j)})

\* C26: in every request of a fetch the Host header is the current logical
\* hostname, never the address, and the address connected to belongs to it:
\* until a redirect to another hostname has been followed they are the
\* hostname and the address the fetch was called with, and afterwards the
\* hostname of the latest re-resolution and the address it gave.
C26_HostAndAddressArePaired ==
    out.res # None =>
        \A i \in 1..Len(Fetched.requests) :
            /\ Fetched.requests[i].host # Fetched.requests[i].ip
            /\ IF CrossedBefore(i) = 0
               THEN /\ Fetched.requests[i].host = argA.host
                    /\ Fetched.requests[i].ip = argA.ip
               ELSE /\ CrossedBefore(i) <= Len(Fetched.lookups)
                    /\ Fetched.requests[i].host
                          = Fetched.lookups[CrossedBefore(i)].hostname
                    /\ Fetched.requests[i].ip
                          = AddressOf(Fetched.lookups[CrossedBefore(i)].type,
                                      Fetched.lookups[CrossedBefore(i)].hostname)

\* an IPv4 fetch for b.io redirected to a.io and back to b.io: the last
\* request goes to b.io at the address re-resolved for b.io
C26_Witness_ThereAndBackAgain ==
    /\ out.res # None
    /\ argA.host = HostB
    /\ argA.ip = V4a
    /\ Len(Fetched.requests) = 3
    /\ CrossedBefore(3) = 2
    /\ Fetched.requests[2] = RawRequest(V4a, HostA, <<"/", "q">>)
    /\ Fetched.requests[3] = RawRequest(V4b, HostB, <<"/", "q">>)

\* C27: every connection a fetch opens is a plain TCP connection to port 80
\* of the address pinned for the request: the scheme and the port of an
\* absolute Location change neither, at any hop of the chain.
C27_AlwaysPlainTcpPort80 ==
    out.res # None =>
        \A i \in 1..Len(Fetched.requests) :
            /\ Fetched.requests[i].port = 80
            /\ Fetched.requests[i].transport = "tcp"
            /\ Fetched.requests[i].ip
                  \in {argA.ip} \cup {AddressOf(Fetched.lookups[k].type,
                                                Fetched.lookups[k].hostname) :
                                         k \in 1..Len(Fetched.lookups)}

\* a redirect to https://b.io:8443/s followed over plain TCP to port 80
C27_Witness_HttpsLocationFollowedOnPort80 ==
    /\ out.res # None
    /\ Len(Fetched.requests) >= 2
    /\ LocationAt(1) = SubSeq(LineLocTlsPort, 11, Len(LineLocTlsPort))
    /\ Fetched.requests[2].host = HostB
    /\ Fetched.requests[2].path = <<"/", "s">>
    /\ Fetched.requests[2].port = 80
    /\ ~Fetched.isString

\* C28: the number of bytes one request accumulates from the socket never
\* exceeds 500,000 + 65,536, whatever the sizes of the reads.
C28_BytesReadWithinTheCap ==
    phase = "read" => out.totalLen <= SIMHASH_MAX_RESPONSE_SIZE + 65536

\* C29: for a response whose Transfer-Encoding contains chunked and whose
\* body is a well-formed chunk sequence, the decoded body is the
\* concatenation of the chunks' data in order, also when the data holds
\* characters of more than one byte.
C29_ChunkedBodyIsTheChunksData ==
    (out.res # None /\ argA.damage = "none") =>
        /\ ~out.res[1].hangs
        /\ out.res[1].body = Concat(argA.chunks)

\* C30: chunked decoding of any body text ends, without raising, and the
\* body is what was decoded up to the first zero-length chunk or
\* inconsistency.
C30_ChunkedDecodingTerminates ==
    out.res # None => ~out.res[1].hangs

\* the response to the fetch's i-th request has no header boundary, or a
\* first line that is not a status line
Unparseable(i) == HopAt(argB, i - 1).kind \in {"noboundary", "badstatus"}

\* the message of the Error rawHttpGet throws for such a response
UnparseableMessage(wire) ==
    IF wire.kind = "noboundary" THEN <<"No header boundary in response">>
    ELSE <<"Bad status line: ">> \o wire.message

\* C31: a response without header boundary, or whose first line is no
\* status line, ends the whole fetch at that hop with a failure string: the
\* request it answers is the fetch's last one (nothing is sent or retried
\* afterwards), and the outcome is the string of the parse failure, with no
\* status, headers, body or redirect chain.
C31_UnparseableResponseFailsTheFetch ==
    out.res # None =>
        \A i \in 1..Len(Fetched.requests) :
            Unparseable(i) =>
                /\ i = Len(Fetched.requests)
                /\ Fetched
                      = FetchString(UnparseableMessage(HopAt(argB, i - 1)),
                                    Fetched.requests, Fetched.lookups)

\* a fetch that followed a redirect and got an unparseable response to its
\* second request, while the network had a 200 ready for a third
C31_Witness_UnparseableAtSecondHop ==
    /\ out.res # None
    /\ Len(argB.hops) = 3
    /\ Len(Fetched.requests) = 2
    /\ Unparseable(2)
    /\ Fetched.isString
    /\ Fetched.str = <<"No header boundary in response">>

\* C32: no component retries.  Never more than 2 lookups, 4 probe
\* connections and 2 fetches are made for one request; when both families
\* resolve and followRedirects is unset, the handler answers after exactly
\* 2 lookups, 4 probe connections and 2 fetch connections, one per fetch,
\* whichever of them failed.
C32_EachOperationIsAttemptedOnce ==
    /\ net.lookups <= 2
    /\ net.probes <= 4
    /\ net.fetches <= 2
    /\ (Returned /\ BothResolved /\ ~req[1].followRedirects) =>
          /\ net = [lookups |-> 2, probes |-> 4, fetches |-> 2]
          /\ AllDone(ports)
          /\ AllDone(fetches)
          /\ \A f \in Families :
                /\ Len(fetches[f].val[1].requests) = 1
                /\ fetches[f].val[1].lookups = <<>>

\* an answer after every probe was refused and both fetches failed
C32_Witness_EverythingFailedOnce ==
    /\ Returned
    /\ BothResolved
    /\ ~req[1].followRedirects
    /\ AllDone(ports)
    /\ \A k \in Families \X PortNames : ports[k].val[1] = FALSE
    /\ AllDone(fetches)
    /\ \A f \in Families : fetches[f].val[1].isString
    /\ net = [lookups |-> 2, probes |-> 4, fetches |-> 2]

\* C33: two bodies that differ only in the values of nonce attributes on
\* script and style tags, or only in the contents of __VIEWSTATE inputs,
\* normalize to the same string and score 100%.
C33_NoiseOnlyDifferencesScoreHundred ==
    out.res # None =>
        /\ out.res[1].html4 = out.res[1].html6
        /\ out.res[1].score.similarityPercent = 1000
        /\ out.res[1].score.pass

\* C34: the scorer's input is the normalized first 500,000 code units of
\* the body; normalizing never lengthens, so the input is never longer than
\* 500,000, nor than the body, whatever the size of the body fetched.
C34_ScorerInputWithinTheBudget ==
    out.res # None =>
        /\ out.res[1].inputLen <= 500000
        /\ out.res[1].inputLen <= out.res[1].bodyLen

\* a body longer than the budget whose input fell below it: the nonce of its
\* first tag was removed and the tag across the cut was cut
C34_Witness_LongBodyTruncated ==
    /\ out.res # None
    /\ out.res[1].bodyLen > SIMHASH_MAX_RESPONSE_SIZE
    /\ out.res[1].inputLen < SIMHASH_MAX_RESPONSE_SIZE
    /\ argA.head = PieceScriptNonce

\* C35: a verdict with overallPass = true has no error, both addresses,
\* both status codes present and equal, and a similarityPercent with
\* pass = true; a verdict with an error has overallPass = false and
\* similarityPercent = null.
C35_PassingVerdictIsComplete ==
    ReturnedVerdict =>
        /\ Verdict.overallPass =>
              /\ Verdict.error = None
              /\ Verdict.ipv4Address # None
              /\ Verdict.ipv6Address # None
              /\ Verdict.headerComparison.ipv4StatusCode # None
              /\ Verdict.headerComparison.ipv6StatusCode # None
              /\ Verdict.headerComparison.ipv4StatusCode
                    = Verdict.headerComparison.ipv6StatusCode
              /\ Verdict.headerComparison.statusEqual
              /\ Verdict.contentComparison.similarityPercent # None
              /\ Verdict.contentComparison.pass
        /\ Verdict.error # None =>
              /\ ~Verdict.overallPass
              /\ Verdict.contentComparison.similarityPercent = None

\* a passing verdict with the HTTP port closed on both families
C35_Witness_PassingVerdict ==
    /\ ReturnedVerdict
    /\ Verdict.overallPass
    /\ ~Verdict.portCheck.http.ipv4
    /\ Verdict.portCheck.https.ipv4

\* C36: in the protocol-fallback loop, the two responses compared come from
\* the same attempt: the IPv4 response of one scheme is never compared with
\* the IPv6 response of the other scheme.
C36_ComparedResponsesShareTheScheme ==
    (out.res # None /\ out.res[1].compared) =>
        out.resp4[1].scheme = out.resp6[1].scheme

\* C37: once every request of the island has completed, the result or error
\* on display is the response of the test started last, whatever the order
\* in which the requests completed.
C37_LatestTestIsDisplayed ==
    (Len(out.tests) > 0 /\ AllSettled) => Displayed = {Len(out.tests)}

\* C38: every object the island dereferences when it renders a verdict,
\* connectedAddresses among them, is present in every verdict the handler
\* returns, so that rendering a returned verdict never throws.
C38_RenderedFieldsArePresent ==
    ReturnedVerdict => ~RenderThrows(Verdict)

====
